---------------------------- MODULE Spec2Model ----------------------------
(***************************************************************************)
(* A model of cbz-edit: the ComicInfo record and its XML codec             *)
(* (src/src/comic_info.rs), the archive rewriter (src/src/zip_util.rs)     *)
(* and the batch operations (src/src/chapter_manager.rs).                  *)
(*                                                                         *)
(* Three specifications share the module, one per subsystem:               *)
(*   SpecCodec   encode / decode of one record or one document             *)
(*   SpecRewrite modify_zip on one archive file, step by step              *)
(*   SpecBatch   a batch call (buffer_unordered) over several targets      *)
(***************************************************************************)
EXTENDS Integers, Sequences, FiniteSets, TLC

(***************************************************************************)
(* Bounds of the model.                                                    *)
(***************************************************************************)
\* Largest number the text parsers are tried on (numbers are 0..MaxNum).
MaxNum == 300
\* Longest archive (number of entries) drawn as an input of modify_zip.
MaxEntries == 2
\* Number of consecutive modify_zip calls on the same file.
MaxCalls == 2
\* Number of targets of one batch call.
MaxTargets == 3
\* Largest concurrency limit (CPU count) of a batch call.
MaxParallel == 2

(***************************************************************************)
(* Program constants.                                                      *)
(***************************************************************************)
\* day: Option<u8>
U8Max == 255
\* year, month: Option<u16>
U16Max == 65535

\* Option<T>: None is the empty sequence, Some(v) the one-element sequence.
None == << >>

Some(v) == << v >>

IsSome(o) == o # None

Unwrap(o) == o[1]

(***************************************************************************)
(* comic_info.rs: the enums.  A variant is written by its Rust name.       *)
(***************************************************************************)
ComicInfoManga == {"Unknown", "Yes", "No", "YesAndRightToLeft"}

ComicInfoAgeRating ==
    {"Unknown", "Everyone", "Teen", "Mature17Plus", "AdultsOnly18Plus"}

\* #[derive(Serialize)] on ComicInfoManga: a unit variant is written as the
\* name of the variant (there is no #[serde(rename)] on any variant).
SerializeManga(v) ==
    CASE v = "Yes" -> "Yes"
      [] v = "No" -> "No"
      [] v = "YesAndRightToLeft" -> "YesAndRightToLeft"
      [] OTHER -> "Unknown"

\* impl Deserialize for ComicInfoManga: never an error.
DeserializeManga(s) ==
    CASE s = "Yes" -> "Yes"
      [] s = "No" -> "No"
      [] s = "YesAndRightToLeft" -> "YesAndRightToLeft"
      [] OTHER -> "Unknown"

\* impl Display for ComicInfoAgeRating (used by the form, not by serde).
DisplayAgeRating(v) ==
    CASE v = "Everyone" -> "Everyone"
      [] v = "Teen" -> "Teen"
      [] v = "Mature17Plus" -> "Mature 17+"
      [] v = "AdultsOnly18Plus" -> "Adults Only 18+"
      [] OTHER -> "Unknown"

\* #[derive(Serialize)] on ComicInfoAgeRating: the name of the variant.
SerializeAgeRating(v) ==
    CASE v = "Everyone" -> "Everyone"
      [] v = "Teen" -> "Teen"
      [] v = "Mature17Plus" -> "Mature17Plus"
      [] v = "AdultsOnly18Plus" -> "AdultsOnly18Plus"
      [] OTHER -> "Unknown"

\* impl Deserialize for ComicInfoAgeRating: never an error.
DeserializeAgeRating(s) ==
    CASE s = "Everyone" -> "Everyone"
      [] s = "Teen" -> "Teen"
      [] s = "Mature 17+" -> "Mature17Plus"
      [] s = "Adults Only 18+" -> "AdultsOnly18Plus"
      [] OTHER -> "Unknown"

(***************************************************************************)
(* comic_info.rs: the record.                                              *)
(***************************************************************************)
\* The two String fields (no Option, no #[serde(default)]).
StringFields == {"title", "series"}

\* The Option<String> fields.
OptStringFields ==
    {"summary", "writer", "penciller", "translator", "publisher", "genre",
     "tags", "web", "language_iso"}

\* The Option<unsigned> fields (volume, page_count, count: u32; year,
\* month: u16; day: u8).  count is the field the form reads and writes
\* (info.count, parse_opt_u32) and the shared update copies; the struct is
\* built with it in ComicInfoForm::to_comic_info.
OptUIntFields == {"volume", "year", "month", "day", "page_count", "count"}

Fields ==
    StringFields \cup OptStringFields \cup OptUIntFields
        \cup {"number", "manga", "age_rating"}

\* ComicInfo::default(): #[derive(Default)].
DefaultComicInfo ==
    [title |-> "", series |-> "", number |-> None, volume |-> None,
     summary |-> None, year |-> None, month |-> None, day |-> None,
     writer |-> None, penciller |-> None, translator |-> None,
     publisher |-> None, genre |-> None, tags |-> None, web |-> None,
     page_count |-> None, language_iso |-> None, count |-> None,
     manga |-> "Unknown",
     age_rating |-> "Unknown"]

\* #[serde(rename_all = "PascalCase")] and the rename of language_iso.
Tag(f) ==
    CASE f = "title" -> "Title"
      [] f = "series" -> "Series"
      [] f = "number" -> "Number"
      [] f = "volume" -> "Volume"
      [] f = "summary" -> "Summary"
      [] f = "year" -> "Year"
      [] f = "month" -> "Month"
      [] f = "day" -> "Day"
      [] f = "writer" -> "Writer"
      [] f = "penciller" -> "Penciller"
      [] f = "translator" -> "Translator"
      [] f = "publisher" -> "Publisher"
      [] f = "genre" -> "Genre"
      [] f = "tags" -> "Tags"
      [] f = "web" -> "Web"
      [] f = "page_count" -> "PageCount"
      [] f = "count" -> "Count"
      [] f = "language_iso" -> "LanguageISO"
      [] f = "manga" -> "Manga"
      [] f = "age_rating" -> "AgeRating"

KnownTags == {Tag(f) : f \in Fields}

FieldOfTag(t) == CHOOSE f \in Fields : Tag(f) = t

\* The largest value of the field's integer type (u32 is wider than the
\* numbers of the model).
UIntMax(f) ==
    CASE f = "day" -> U8Max
      [] f \in {"year", "month"} -> U16Max
      [] OTHER -> MaxNum

(***************************************************************************)
(* Numbers and text.  An unsigned integer is written in decimal; number    *)
(* (f32) is kept in tenths, so 105 is 10.5 and is written "10.5", and 50   *)
(* is 5.0 and is written "5" (Rust's Display of a float).                  *)
(***************************************************************************)
FormatUInt(n) == ToString(n)

FormatF32(x) ==
    IF x % 10 = 0
    THEN ToString(x \div 10)
    ELSE ToString(x \div 10) \o "." \o ToString(x % 10)

\* str::parse::<uN>(): Some(n) when the text is the decimal form of a number
\* that fits the type, None otherwise.
ParseUInt(s, max) ==
    IF \E n \in 0..MaxNum : n <= max /\ FormatUInt(n) = s
    THEN Some(CHOOSE n \in 0..MaxNum : FormatUInt(n) = s)
    ELSE None

\* str::parse::<f32>() on the texts of the model: an integer text or a text
\* with one decimal.
ParseF32(s) ==
    IF \E x \in 0..MaxNum : FormatF32(x) = s
    THEN Some(CHOOSE x \in 0..MaxNum : FormatF32(x) = s)
    ELSE None

(***************************************************************************)
(* The codec.  A document is a function from the tags of its elements to   *)
(* their text; the content of an archive entry is a record                 *)
(*   [kind, comments, doc]                                                 *)
(* with kind "xml" (well-formed markup with `comments` comments before the *)
(* root element), "malformed" (text that is not well-formed markup),       *)
(* "binary" (bytes that are not UTF-8) or "bytes" (an ordinary entry).     *)
(***************************************************************************)
EmptyDoc == [t \in {} |-> ""]

XmlContent(n, d) == [kind |-> "xml", comments |-> n, doc |-> d, bytes |-> 0]

MalformedContent ==
    [kind |-> "malformed", comments |-> 0, doc |-> EmptyDoc, bytes |-> 0]

BinaryContent ==
    [kind |-> "binary", comments |-> 0, doc |-> EmptyDoc, bytes |-> 0]

BytesContent(b) ==
    [kind |-> "bytes", comments |-> 0, doc |-> EmptyDoc, bytes |-> b]

\* Whether #[derive(Serialize)] writes an element for field f of r:
\* skip_serializing_if = "Option::is_none" on every Option field, nothing
\* on title, series, manga and age_rating.
IsSerialized(r, f) ==
    IF f \in OptStringFields \cup OptUIntFields \cup {"number"}
    THEN IsSome(r[f])
    ELSE TRUE

\* The text of the element of field f.
FieldText(r, f) ==
    CASE f \in StringFields -> r[f]
      [] f \in OptStringFields -> Unwrap(r[f])
      [] f \in OptUIntFields -> FormatUInt(Unwrap(r[f]))
      [] f = "number" -> FormatF32(Unwrap(r[f]))
      [] f = "manga" -> SerializeManga(r[f])
      [] f = "age_rating" -> SerializeAgeRating(r[f])

\* quick_xml::se::to_string(&ComicInfo): the document of a record.
ToDoc(r) ==
    [t \in {Tag(f) : f \in {g \in Fields : IsSerialized(r, g)}} |->
        FieldText(r, FieldOfTag(t))]

\* Deserializing the element of field f from text s: Some(value), or None
\* when the text does not parse (an error of from_str).
FieldValue(f, s) ==
    CASE f \in StringFields -> Some(s)
      [] f \in OptStringFields -> Some(Some(s))
      [] f \in OptUIntFields ->
            IF IsSome(ParseUInt(s, UIntMax(f)))
            THEN Some(ParseUInt(s, UIntMax(f)))
            ELSE None
      [] f = "number" ->
            IF IsSome(ParseF32(s)) THEN Some(ParseF32(s)) ELSE None
      [] f = "manga" -> Some(DeserializeManga(s))
      [] f = "age_rating" -> Some(DeserializeAgeRating(s))

\* The value #[derive(Deserialize)] gives a field whose element is absent:
\* None for an Option, Default for #[serde(default)], and an error
\* ("missing field") for title and series, written None here.
MissingValue(f) ==
    CASE f \in StringFields -> None
      [] f = "manga" -> Some("Unknown")
      [] f = "age_rating" -> Some("Unknown")
      [] OTHER -> Some(None)

\* The result of deserializing field f from document d.
FieldResult(d, f) ==
    IF Tag(f) \in DOMAIN d THEN FieldValue(f, d[Tag(f)]) ELSE MissingValue(f)

\* quick_xml::de::from_str::<ComicInfo>(): Some(record), or None for an
\* error (content that is no markup, a missing title or series element, a
\* field that does not parse).  Elements of unknown tags are ignored.
FromStr(c) ==
    IF c.kind # "xml" THEN None
    ELSE IF \E f \in Fields : FieldResult(c.doc, f) = None THEN None
    ELSE Some([f \in Fields |-> Unwrap(FieldResult(c.doc, f))])

\* from_str(&content).unwrap_or_default()
Decode(c) ==
    IF IsSome(FromStr(c)) THEN Unwrap(FromStr(c)) ELSE DefaultComicInfo

(***************************************************************************)
(* zip_util.rs: the merge policies (ComicInfoUpdater).                     *)
(***************************************************************************)
\* The fields ComicInfo::update_shared_fields copies from the candidate.
SharedFields ==
    {"series", "summary", "writer", "penciller", "publisher", "genre",
     "tags", "web", "language_iso", "manga", "age_rating", "count"}

\* The fields derive_updater copies from the candidate.
DerivedFields == {"volume", "number", "translator", "title"}

\* old with the fields of set fs taken from new.
TakeFields(old, new, fs) ==
    [f \in Fields |-> IF f \in fs THEN new[f] ELSE old[f]]

\* A variant that keeps the existing record.
KeepOldUpdater(old, new) == old

ReplaceAllUpdater(old, new) == new

UpdateSharedFields(old, new) == TakeFields(old, new, SharedFields)

\* A variant of the shared update that copies the title as well.
UpdateSharedUpdaterWithTitle(old, new) ==
    TakeFields(old, new, SharedFields \cup {"title"})

UpdateSharedUpdater(old, new) == UpdateSharedFields(old, new)

\* A variant that keeps the existing title when the candidate has none.
DeriveUpdaterKeepingTitle(old, new) ==
    TakeFields(old, new,
               IF new.title = "" THEN DerivedFields \ {"title"}
               ELSE DerivedFields)

\* A variant that adds the candidate's translators to the existing ones.
DeriveUpdaterAppending(old, new) ==
    [TakeFields(old, new, DerivedFields) EXCEPT
        !.translator =
            IF IsSome(old.translator) /\ IsSome(new.translator)
            THEN Some(Unwrap(old.translator) \o "," \o Unwrap(new.translator))
            ELSE new.translator]

DeriveUpdater(old, new) == TakeFields(old, new, DerivedFields)

VolumeUpdater(old, new) == TakeFields(old, new, {"volume"})

Updaters == {"replace_all", "update_shared", "derive", "volume"}

\* updater(old, new_info): the call through the function pointer.
ApplyUpdater(u, old, new) ==
    CASE u = "replace_all" -> ReplaceAllUpdater(old, new)
      [] u = "update_shared" -> UpdateSharedUpdater(old, new)
      [] u = "derive" -> DeriveUpdater(old, new)
      [] u = "volume" -> VolumeUpdater(old, new)

(***************************************************************************)
(* zip_util.rs: archive entries and the helpers of modify_zip.             *)
(*                                                                         *)
(* An entry is [name, content, method, mode, bad]: mode is unix_mode(), an *)
(* Option (None for an entry that carries no unix attributes); bad marks   *)
(* an entry whose data cannot be read (by_index or the read fails).        *)
(***************************************************************************)
ComicInfoName == "ComicInfo.xml"

\* S_IFREG, the file-type bits start_file gives a file entry.
RegularFile == 32768

\* The permissions ZipWriter::start_file uses when the options carry none
\* (SimpleFileOptions::default()): 0o644.
DefaultPermissions == 420

Entry(n, c, me, mo, b) ==
    [name |-> n, content |-> c, method |-> me, mode |-> mo, bad |-> b]

\* A variant of file_options that drops the attributes of the source entry.
FileOptionsDropped(src) == [method |-> "Deflated", perm |-> None]

\* file_options: the compression method of the source entry, and its
\* permissions (unix_permissions keeps mode & 0o777) when it has a mode.
FileOptions(src) ==
    [method |-> src.method,
     perm |-> IF IsSome(src.mode) THEN Some(Unwrap(src.mode) % 512) ELSE None]

\* SimpleFileOptions::default()
DefaultOptions == [method |-> "Deflated", perm |-> None]

\* writer.start_file(name, opts) followed by writer.write_all(content).
StartFile(n, opts, c) ==
    Entry(n, c, opts.method,
          Some(RegularFile +
               (IF IsSome(opts.perm) THEN Unwrap(opts.perm)
                ELSE DefaultPermissions)),
          FALSE)

\* The text values of the model that carry leading or trailing whitespace,
\* with the whitespace removed.
TrimText(s) ==
    CASE s = " T3 " -> "T3"
      [] OTHER -> s

\* add_xml_comment: one comment event, then every event of the input with
\* trim_text(true).
AddXmlComment(c) ==
    XmlContent(c.comments + 1, [t \in DOMAIN c.doc |-> TrimText(c.doc[t])])

\* The record both write_comic_info and add_new_comic_info encode.
EncodedRecord(old, new_info, updater) ==
    AddXmlComment(XmlContent(0, ToDoc(ApplyUpdater(updater, old, new_info))))

\* src.read_to_string(&mut content): fails on unreadable data and on bytes
\* that are not UTF-8.
ReadToStringOk(src) == ~src.bad /\ src.content.kind # "binary"

\* A variant of write_comic_info that passes the comments of the entry it
\* reads on to the entry it writes.
WriteComicInfoKeepingComments(src, new_info, updater, opts) ==
    LET enc == EncodedRecord(Decode(src.content), new_info, updater)
    IN  StartFile(ComicInfoName, opts,
                  [enc EXCEPT !.comments = @ + src.content.comments])

\* write_comic_info, when no step of it fails: the entry it writes.
WriteComicInfo(src, new_info, updater, opts) ==
    StartFile(ComicInfoName, opts,
              EncodedRecord(Decode(src.content), new_info, updater))

\* A variant of add_new_comic_info that writes the candidate as it is,
\* without the merge policy.
AddNewComicInfoUnmerged(new_info, updater) ==
    StartFile(ComicInfoName, DefaultOptions,
              AddXmlComment(XmlContent(0, ToDoc(new_info))))

\* add_new_comic_info, when no step of it fails: the entry it writes.
AddNewComicInfo(new_info, updater) ==
    StartFile(ComicInfoName, DefaultOptions,
              EncodedRecord(DefaultComicInfo, new_info, updater))

\* copy_file: fails when the data cannot be read.
CopyFileOk(src) == ~src.bad

\* copy_file, when it succeeds: the entry it writes.
CopyFile(src, name, opts) == StartFile(name, opts, src.content)

(***************************************************************************)
(* The inputs of the model.                                                *)
(***************************************************************************)
\* A record with the given title, number, volume, manga flag and age
\* rating; with full, every other field is populated as well.
SampleRecord(t, n, v, m, a, full) ==
    IF full
    THEN [title |-> t, series |-> "S", number |-> n, volume |-> v,
          summary |-> Some("sum"), year |-> Some(25), month |-> Some(12),
          day |-> Some(31), writer |-> Some("w"), penciller |-> Some("p"),
          translator |-> Some("a,b"), publisher |-> Some("pub"),
          genre |-> Some("g1,g2"), tags |-> Some("t1"),
          web |-> Some("http://x http://y"), page_count |-> Some(200),
          count |-> Some(12),
          language_iso |-> Some("en"), manga |-> m, age_rating |-> a]
    ELSE [DefaultComicInfo EXCEPT !.title = t, !.number = n, !.volume = v,
                                  !.manga = m, !.age_rating = a]

\* The records a round trip of the codec is tried on.
SampleRecords ==
    {SampleRecord(t, n, v, m, a, full) :
        t \in {"", "T1"}, n \in {None, Some(105), Some(50)},
        v \in {None, Some(3)}, m \in ComicInfoManga,
        a \in ComicInfoAgeRating, full \in BOOLEAN}

\* The elements a document of the model may hold: for each tag, the texts
\* it may carry.  Notes is a tag no field has.
DocOptions ==
    [Title |-> <<"T1">>, Series |-> <<"S">>, Volume |-> <<"3", "x">>,
     Number |-> <<"10.5">>, Day |-> <<"7", "300">>,
     AgeRating |-> <<"Teen", "Mature 17+", "bogus">>,
     Manga |-> <<"Yes", "maybe">>, Notes |-> <<"n">>]

\* The document that holds, for each tag t with sel[t] > 0, the element
\* with the sel[t]-th text of the tag.
SampleDoc(sel) ==
    [t \in {u \in DOMAIN DocOptions : sel[u] > 0} |-> DocOptions[t][sel[t]]]

\* The documents decode is tried on.
SampleDocs ==
    {SampleDoc(sel) :
        sel \in {x \in [DOMAIN DocOptions -> 0..3] :
                    \A t \in DOMAIN DocOptions : x[t] <= Len(DocOptions[t])}}

\* The records already stored in the archives of the model.
Existing1 ==
    [SampleRecord("T0", Some(50), Some(1), "No", "Everyone", TRUE)
        EXCEPT !.series = "S0", !.summary = Some("old")]

\* The candidate records handed to modify_zip (the form keeps the title as
\* typed, leading and trailing blanks included).
Cand1 == SampleRecord(" T3 ", Some(105), Some(3), "Yes", "Teen", TRUE)

Cand2 == SampleRecord("T1", None, None, "Unknown", "Mature17Plus", FALSE)

Candidates == {Cand1, Cand2}

\* A stored record that differs from every candidate in every field.
OldRecord ==
    [title |-> "T0", series |-> "S0", number |-> Some(50),
     volume |-> Some(1), summary |-> Some("old"), year |-> Some(24),
     month |-> Some(11), day |-> Some(30), writer |-> Some("w0"),
     penciller |-> Some("p0"), translator |-> Some("z"),
     publisher |-> Some("pub0"), genre |-> Some("g0"), tags |-> Some("t0"),
     web |-> Some("http://o"), page_count |-> Some(100),
     language_iso |-> Some("ja"), count |-> Some(7), manga |-> "No",
     age_rating |-> "Everyone"]

\* The existing records the merge policies are tried on (old), and the
\* candidates (new): with and without title, number and volume, with every
\* other optional field present or absent.
MergeExisting == {DefaultComicInfo, OldRecord}

MergeCandidates ==
    {SampleRecord(t, n, v, m, a, full) :
        t \in {"", "T1"}, n \in {None, Some(105)}, v \in {None, Some(3)},
        m \in {"Unknown", "Yes"}, a \in {"Unknown", "Mature17Plus"},
        full \in BOOLEAN}

\* 0o100644, 0o100600: unix modes of regular files.
Mode644 == RegularFile + 420

Mode600 == RegularFile + 384

\* The entries the archives of the model are made of: two ordinary entries
\* (one of them nested, without unix attributes), an entry whose data is
\* unreadable, and five forms of the root ComicInfo.xml entry.
PageEntry == Entry("001.png", BytesContent(1), "Stored", Some(Mode644), FALSE)

NestedEntry ==
    Entry("sub/ComicInfo.xml", BytesContent(2), "Deflated", None, FALSE)

BadEntry == Entry("bad.png", BytesContent(3), "Stored", Some(Mode644), TRUE)

\* A metadata entry with an age rating and a manga flag, in the words of
\* the ComicInfo schema.
RatedEntry ==
    Entry(ComicInfoName,
          XmlContent(0, [Title |-> "T0", Series |-> "S0",
                         AgeRating |-> "Mature 17+",
                         Manga |-> "YesAndRightToLeft"]),
          "Deflated", Some(Mode644), FALSE)

ComicInfoEntries ==
    {Entry(ComicInfoName, XmlContent(0, ToDoc(Existing1)), "Stored",
           Some(Mode600), FALSE),
     Entry(ComicInfoName, XmlContent(1, [Series |-> "S0", Volume |-> "3"]),
           "Deflated", None, FALSE),
     RatedEntry,
     Entry(ComicInfoName, MalformedContent, "Deflated", Some(Mode644), FALSE),
     Entry(ComicInfoName, BinaryContent, "Stored", Some(Mode644), FALSE)}

EntryPool == {PageEntry, NestedEntry, BadEntry} \cup ComicInfoEntries

\* The entry lists of at most n entries with pairwise distinct names (a
\* ZipArchive holds one entry per name).
RECURSIVE EntryLists(_)
EntryLists(n) ==
    IF n = 0 THEN {<< >>}
    ELSE LET shorter == EntryLists(n - 1)
         IN  shorter \cup
             {Append(l, e) : l \in {x \in shorter : Len(x) = n - 1},
                             e \in EntryPool} 

DistinctNames(l) ==
    \A a, b \in 1..Len(l) : a # b => l[a].name # l[b].name

\* What the file at input_path may hold: nothing (no such file), bytes that
\* are no archive, an archive, or the beginning of an archive (what a write
\* that failed part-way leaves).
NoFile == [kind |-> "absent", entries |-> << >>]

GarbageFile == [kind |-> "garbage", entries |-> << >>]

TruncatedFile == [kind |-> "truncated", entries |-> << >>]

ZipFile(l) == [kind |-> "zip", entries |-> l]

SampleFiles ==
    {NoFile, GarbageFile}
        \cup {ZipFile(l) : l \in {x \in EntryLists(MaxEntries) : DistinctNames(x)}}

(***************************************************************************)
(* modify_zip as a whole: what a call may return and leave in the file.    *)
(* SpecRewrite runs the same statements one at a time.                     *)
(***************************************************************************)
\* Whether the loop iteration on entry e fails (copy_file, or the read in
\* write_comic_info).
EntryFails(e) ==
    IF e.name = ComicInfoName THEN ~ReadToStringOk(e) ELSE ~CopyFileOk(e)

\* The index of the first entry of l on which the loop fails, 0 if none.
FirstFailing(l) ==
    IF \E k \in DOMAIN l : EntryFails(l[k])
    THEN CHOOSE k \in DOMAIN l :
            EntryFails(l[k]) /\ \A j \in 1..(k - 1) : ~EntryFails(l[j])
    ELSE 0

\* The entries the writer holds at writer.finish() when no step failed.
ModifyZipEntries(l, new_info, updater) ==
    LET handled ==
            [k \in DOMAIN l |->
                IF l[k].name = ComicInfoName
                THEN WriteComicInfo(l[k], new_info, updater, FileOptions(l[k]))
                ELSE CopyFile(l[k], l[k].name, FileOptions(l[k]))]
    IN  IF \E k \in DOMAIN l : l[k].name = ComicInfoName
        THEN handled
        ELSE Append(handled, AddNewComicInfo(new_info, updater))

\* The pairs [result, file] a call of modify_zip on file f may end with.
ModifyZipOutcomes(f, new_info, updater) ==
    IF f.kind = "absent" THEN {[result |-> "read", file |-> f]}
    ELSE IF f.kind # "zip" THEN {[result |-> "parse", file |-> f]}
    ELSE LET l == f.entries
             bad == FirstFailing(l)
             encodes ==
                 IF bad = 0 THEN TRUE
                 ELSE \E k \in 1..(bad - 1) : l[k].name = ComicInfoName
         IN  (IF encodes THEN {[result |-> "encode", file |-> f]} ELSE {})
             \cup
             (IF bad # 0 THEN {[result |-> "entry", file |-> f]}
              ELSE {[result |-> "ok",
                     file |-> ZipFile(ModifyZipEntries(l, new_info, updater))],
                    [result |-> "write", file |-> f],
                    [result |-> "write", file |-> TruncatedFile]})

\* get_comic_from_zip(path): Err for a file that cannot be read or is no
\* archive and for a ComicInfo.xml entry whose read_to_string fails;
\* otherwise the record decoded from the entry, the default record when the
\* archive has no such entry.
GetComicFromZip(f) ==
    IF f.kind = "absent" THEN [result |-> "read", info |-> None]
    ELSE IF f.kind # "zip" THEN [result |-> "parse", info |-> None]
    ELSE LET l == f.entries
             at == {k \in DOMAIN l : l[k].name = ComicInfoName}
         IN  IF at = {} THEN [result |-> "ok", info |-> Some(DefaultComicInfo)]
             ELSE LET src == l[CHOOSE k \in at : TRUE]
                  IN  IF ReadToStringOk(src)
                      THEN [result |-> "ok",
                            info |-> Some(Decode(src.content))]
                      ELSE [result |-> "entry", info |-> None]

(***************************************************************************)
(* chapter_manager.rs: the inputs of a batch call.                         *)
(***************************************************************************)
\* seq joined with sep between the pieces (Vec<String>::join).
RECURSIVE JoinStrings(_, _)
JoinStrings(seq, sep) ==
    IF Len(seq) = 0 THEN ""
    ELSE IF Len(seq) = 1 THEN seq[1]
    ELSE seq[1] \o sep \o JoinStrings(Tail(seq), sep)

\* The t-th chapter of the batch (ui::list::Chapter): every chapter has its
\* own path, volume and number; the even ones have no title and no
\* translator.
SampleChapter(t) ==
    [path |-> "c" \o ToString(t), volume |-> Some(t), chapter |-> Some(10 * t),
     title |-> IF t % 2 = 0 THEN None ELSE Some("A" \o ToString(t)),
     translators |-> IF t % 2 = 0 THEN << >> ELSE <<"a", "b">>]

\* get_title: the title, or the path when the chapter has none.
GetTitle(chapter) ==
    IF IsSome(chapter.title) THEN Unwrap(chapter.title) ELSE chapter.path

\* The candidate update_chapter_numbering builds from a chapter.
DerivedInfo(chapter) ==
    [DefaultComicInfo EXCEPT
        !.volume = chapter.volume,
        !.number = chapter.chapter,
        !.translator = Some(JoinStrings(chapter.translators, ",")),
        !.title = IF IsSome(chapter.title) THEN Unwrap(chapter.title) ELSE @]

BatchOps ==
    {"save_series_info", "update_chapter_numbering", "update_volume_numbering"}

\* The rewrite each batch operation runs on its targets: update_info,
\* update_derived, update_volume.
BatchUpdater(op) ==
    CASE op = "save_series_info" -> "update_shared"
      [] op = "update_chapter_numbering" -> "derive"
      [] op = "update_volume_numbering" -> "volume"

\* The candidate of one target: the comic_info of the call, or the record
\* derived from the chapter.
BatchInfo(op, chapter, comic_info) ==
    IF op = "update_chapter_numbering" THEN DerivedInfo(chapter)
    ELSE comic_info

\* What the file of a target may hold when the batch begins.
BatchFiles == {NoFile, ZipFile(<<PageEntry>>), ZipFile(<<PageEntry, RatedEntry>>)}

\* The status messages: "Processing i/n: title" and "All done~ processed n
\* chapters in ..".
ProcessingMessage(i, n, title) ==
    [kind |-> "processing", i |-> i, n |-> n, title |-> title]

SummaryMessage(n) == [kind |-> "summary", i |-> 0, n |-> n, title |-> ""]

\* watch::Sender::send(value): Err when every Receiver has been dropped.
SendResult(alive) == IF alive THEN "ok" ELSE "err"

\* A variant of process_chapter_info that sends no status message.

\* A variant of process_chapter_info that sends its message twice.
StartMessagesTwice(t, n, title) ==
    <<ProcessingMessage(t, n, title), ProcessingMessage(t, n, title)>>

\* What process_chapter_info sends before it spawns the task:
\* let _ = status_tx.send(format!("Processing {}/{}: {}", i + 1, ..));
StartMessages(t, n, title) == <<ProcessingMessage(t, n, title)>>

(***************************************************************************)
(* data.rs: text.  A file name, a token and a title are sequences of       *)
(* characters (strings of length one), so that the scans of parse_filename *)
(* are computed character by character.                                    *)
(***************************************************************************)
AsciiDigits == {"0", "1", "2", "3", "4", "5", "6", "7", "8", "9"}

\* char::to_digit(10) of an ASCII digit.
DigitValue(c) ==
    CASE c = "0" -> 0 [] c = "1" -> 1 [] c = "2" -> 2 [] c = "3" -> 3
      [] c = "4" -> 4 [] c = "5" -> 5 [] c = "6" -> 6 [] c = "7" -> 7
      [] c = "8" -> 8 [] c = "9" -> 9

\* The letters (the file names of the model are ASCII).
UpperAlphabet ==
    <<"A", "B", "C", "D", "E", "F", "G", "H", "I", "J", "K", "L", "M", "N",
      "O", "P", "Q", "R", "S", "T", "U", "V", "W", "X", "Y", "Z">>

LowerAlphabet ==
    <<"a", "b", "c", "d", "e", "f", "g", "h", "i", "j", "k", "l", "m", "n",
      "o", "p", "q", "r", "s", "t", "u", "v", "w", "x", "y", "z">>

UpperLetters == {UpperAlphabet[k] : k \in DOMAIN UpperAlphabet}

LowerLetters == {LowerAlphabet[k] : k \in DOMAIN LowerAlphabet}

\* char::is_alphabetic
IsAlphabetic(c) == c \in UpperLetters \cup LowerLetters

\* char::is_whitespace
IsWhitespace(c) == c \in {" ", "\t", "\n"}

\* char::to_lowercase
ToLowerChar(c) ==
    IF c \in UpperLetters
    THEN LowerAlphabet[CHOOSE k \in DOMAIN UpperAlphabet : UpperAlphabet[k] = c]
    ELSE c

\* str::to_lowercase
ToLowercase(s) == [k \in DOMAIN s |-> ToLowerChar(s[k])]

\* str::starts_with, str::ends_with
StartsWith(s, p) == Len(p) <= Len(s) /\ SubSeq(s, 1, Len(p)) = p

EndsWith(s, p) ==
    Len(p) <= Len(s) /\ SubSeq(s, Len(s) - Len(p) + 1, Len(s)) = p

\* str::contains(char)
Contains(s, c) == \E k \in DOMAIN s : s[k] = c

\* str::trim_end_matches(pat): pat removed from the end as often as it
\* is there.
RECURSIVE TrimEndMatches(_, _)
TrimEndMatches(s, p) ==
    IF Len(p) > 0 /\ EndsWith(s, p)
    THEN TrimEndMatches(SubSeq(s, 1, Len(s) - Len(p)), p)
    ELSE s

\* str::rfind(char): Some(index of the last occurrence), counted from 1.
RFind(s, c) ==
    IF Contains(s, c)
    THEN Some(CHOOSE k \in DOMAIN s :
                 s[k] = c /\ \A j \in DOMAIN s : s[j] = c => j <= k)
    ELSE None

\* str::trim
RECURSIVE Trim(_)
Trim(s) ==
    IF Len(s) = 0 THEN s
    ELSE IF IsWhitespace(s[1]) THEN Trim(Tail(s))
    ELSE IF IsWhitespace(s[Len(s)]) THEN Trim(SubSeq(s, 1, Len(s) - 1))
    ELSE s

\* str::split(char): the pieces between the occurrences of c (one piece
\* more than there are occurrences).
RECURSIVE Split(_, _)
Split(s, c) ==
    IF ~Contains(s, c) THEN <<s>>
    ELSE LET k == CHOOSE j \in DOMAIN s :
                     s[j] = c /\ \A h \in 1..(j - 1) : s[h] # c
         IN  <<SubSeq(s, 1, k - 1)>> \o Split(SubSeq(s, k + 1, Len(s)), c)

\* [String]::join(sep)
RECURSIVE Join(_, _)
Join(seq, sep) ==
    IF Len(seq) = 0 THEN << >>
    ELSE IF Len(seq) = 1 THEN seq[1]
    ELSE seq[1] \o sep \o Join(Tail(seq), sep)

\* The number a sequence of digits writes.
RECURSIVE DecimalValue(_)
DecimalValue(s) ==
    IF Len(s) = 0 THEN 0
    ELSE 10 * DecimalValue(SubSeq(s, 1, Len(s) - 1)) + DigitValue(s[Len(s)])

AllDigits(s) == \A k \in DOMAIN s : s[k] \in AsciiDigits

\* str::parse::<u32>() on the texts of the model (digits, letters and
\* punctuation; no sign): Some(n) for one digit or more.
ParseU32(s) ==
    IF Len(s) > 0 /\ AllDigits(s) THEN Some(DecimalValue(s)) ELSE None

\* A decimal number mant / 10^exp with no trailing zero in the fraction.
RECURSIVE Float(_, _)
Float(mant, exp) ==
    IF exp > 0 /\ mant % 10 = 0 THEN Float(mant \div 10, exp - 1)
    ELSE [kind |-> "finite", mant |-> mant, exp |-> exp]

\* f32::NAN and f32::INFINITY
NaN == [kind |-> "nan", mant |-> 0, exp |-> 0]

Infinity == [kind |-> "inf", mant |-> 0, exp |-> 0]

\* str::parse::<f32>() on the texts of the model: digits with at most one
\* '.', at least one digit ("5", "1.5", "1.", ".5"), and the words "nan",
\* "inf" and "infinity" in any letter case; the file names of the model
\* have no sign and no exponent.
ParseFloat(s) ==
    LET digits == SelectSeq(s, LAMBDA c : c \in AsciiDigits)
        dots == SelectSeq(s, LAMBDA c : c = ".")
    IN  IF Len(digits) > 0 /\ Len(dots) <= 1
              /\ Len(digits) + Len(dots) = Len(s)
        THEN Some(Float(DecimalValue(digits),
                        IF Len(dots) = 0 THEN 0
                        ELSE Len(s) - Unwrap(RFind(s, "."))))
        ELSE IF ToLowercase(s) = <<"n", "a", "n">> THEN Some(NaN)
        ELSE IF ToLowercase(s) \in {<<"i", "n", "f">>,
                                    <<"i", "n", "f", "i", "n", "i", "t", "y">>}
        THEN Some(Infinity)
        ELSE None

(***************************************************************************)
(* data.rs: is_chapter_prefix, tokenize_preserving_brackets and the parts  *)
(* of parse_filename.                                                      *)
(***************************************************************************)
ChapterPrefixes ==
    {<<"c", "h">>,
     <<"c", "h", ".">>,
     <<"c", "h", "a", "p">>,
     <<"c", "h", "a", "p", ".">>,
     <<"c", "h", "a", "p", "t", "e", "r">>,
     <<"c", "h", "a", "p", "t", "e", "r", ".">>,
     <<"e", "p">>,
     <<"e", "p", ".">>,
     <<"e", "p", "i", "s", "o", "d", "e">>,
     <<"e", "p", "i", "s", "o", "d", "e", ".">>}

\* is_chapter_prefix(token): the lower-cased token is a prefix, a prefix
\* followed by a digit, or '#' followed by digits only (none included).
IsChapterPrefix(token) ==
    LET low == ToLowercase(token)
    IN  \/ \E p \in ChapterPrefixes :
              \/ low = p
              \/ /\ StartsWith(low, p)
                 /\ Len(low) > Len(p)
                 /\ low[Len(p) + 1] \in AsciiDigits
        \/ StartsWith(low, <<"#">>) /\ AllDigits(Tail(low))

\* i32::MIN, where saturating_sub stops.
I32Min == -2147483647 - 1

\* One character of the loop of tokenize_preserving_brackets, on the state
\* [tokens, buf, bracket_depth].
TokenizeChar(st, c) ==
    CASE c = "[" ->
            [st EXCEPT !.buf = Append(@, c), !.bracket_depth = @ + 1]
      [] c = "]" ->
            [st EXCEPT !.buf = Append(@, c),
                       !.bracket_depth = IF @ = I32Min THEN @ ELSE @ - 1]
      [] c \in {"-", ":", " ", "\t", "\n"} /\ st.bracket_depth = 0 ->
            IF st.buf # << >>
            THEN [st EXCEPT !.tokens = Append(@, st.buf), !.buf = << >>]
            ELSE st
      [] OTHER -> [st EXCEPT !.buf = Append(@, c)]

\* The state of the loop after the characters of s: after those of its
\* first half (mid, computed once), then those of its second half.
RECURSIVE TokenizeLoop(_, _)
TokenizeLoop(st, s) ==
    IF Len(s) = 0 THEN st
    ELSE IF Len(s) = 1 THEN TokenizeChar(st, s[1])
    ELSE LET half == Len(s) \div 2
         IN  CHOOSE end \in
                 {TokenizeLoop(mid, SubSeq(s, half + 1, Len(s))) :
                      mid \in {TokenizeLoop(st, SubSeq(s, 1, half))}} : TRUE

\* tokenize_preserving_brackets(s)
TokenizePreservingBrackets(s) ==
    LET st == TokenizeLoop([tokens |-> << >>, buf |-> << >>,
                            bracket_depth |-> 0], s)
    IN  IF st.buf # << >> THEN Append(st.tokens, st.buf) ELSE st.tokens

\* let name = filename.trim_end_matches(".cbz");
StripExtension(filename) == TrimEndMatches(filename, <<".", "c", "b", "z">>)

\* Whether the last open of a pair precedes the last close:
\* if let (Some(start), Some(end)) = (rfind(open), rfind(close)) && end > start
HasGroup(core, open, close) ==
    /\ IsSome(RFind(core, open))
    /\ IsSome(RFind(core, close))
    /\ Unwrap(RFind(core, close)) > Unwrap(RFind(core, open))

\* &core[start + 1..end]
Inside(core, open, close) ==
    SubSeq(core, Unwrap(RFind(core, open)) + 1,
           Unwrap(RFind(core, close)) - 1)

\* core[..start].trim()
Before(core, open) == Trim(SubSeq(core, 1, Unwrap(RFind(core, open)) - 1))

\* inside.split(',').map(|w| w.trim()).filter(|w| !w.is_empty()).collect()
TranslatorsOf(inside) ==
    LET pieces == Split(inside, ",")
        trimmed == [k \in DOMAIN pieces |-> Trim(pieces[k])]
    IN  SelectSeq(trimmed, LAMBDA w : w # << >>)

\* "Extract translators": [translators, core].
ExtractTranslators(name) ==
    IF HasGroup(name, "[", "]")
    THEN [translators |-> TranslatorsOf(Inside(name, "[", "]")),
          core |-> Before(name, "[")]
    ELSE [translators |-> << >>, core |-> name]

\* Whether "Extract language tag" finds one.
HasLanguageTag(core) ==
    /\ HasGroup(core, "(", ")")
    /\ Len(Inside(core, "(", ")")) \in 2..3

\* "Extract language tag": the core without it.
ExtractLanguage(core) ==
    IF HasLanguageTag(core) THEN Before(core, "(") ELSE core

(***************************************************************************)
(* data.rs: the token scan of parse_filename.  Its state is                *)
(* [i, volume, chapter, leftovers]; i counts from 0 as in the source, so   *)
(* the token at i is tokens[i + 1].                                        *)
(***************************************************************************)
ScanStart == [i |-> 0, volume |-> None, chapter |-> None, leftovers |-> << >>]

\* tokens.get(i + 1)
NextToken(tokens, i) == IF i + 2 <= Len(tokens) THEN Some(tokens[i + 2]) ELSE None

\* The condition of the branch "Volume detection".
IsVolumeToken(tok) ==
    /\ \/ StartsWith(ToLowercase(tok), <<"v", "o", "l">>)
       \/ StartsWith(ToLowercase(tok), <<"v", "o", "l", "u", "m", "e">>)
    /\ ~Contains(tok, "[")
    /\ ~Contains(tok, "]")

\* tok.trim_start_matches(|c| c.is_alphabetic() || c == '.' || c == '#')
RECURSIVE TrimPrefixChars(_)
TrimPrefixChars(tok) ==
    IF Len(tok) > 0 /\ (IsAlphabetic(tok[1]) \/ tok[1] \in {".", "#"})
    THEN TrimPrefixChars(Tail(tok))
    ELSE tok

\* A variant of the volume branch that skips the next token by setting i
\* to its index, and leaves i alone when no number is found.
ScanVolumeStuck(tokens, st) ==
    LET tok == tokens[st.i + 1]
        digits_only == SelectSeq(tok, LAMBDA c : c \in AsciiDigits)
    IN  IF IsSome(ParseU32(digits_only))
        THEN [st EXCEPT !.volume = ParseU32(digits_only), !.i = @ + 1]
        ELSE st

\* A variant of the volume branch that takes the number of the next token
\* and leaves that token to the scan.
ScanVolumeKeepingNext(tokens, st) ==
    LET tok == tokens[st.i + 1]
        digits_only == SelectSeq(tok, LAMBDA c : c \in AsciiDigits)
        next == IF st.i + 2 <= Len(tokens) THEN Some(tokens[st.i + 2]) ELSE None
    IN  IF IsSome(ParseU32(digits_only))
        THEN [st EXCEPT !.volume = ParseU32(digits_only), !.i = @ + 1]
        ELSE IF IsSome(next) /\ IsSome(ParseU32(Unwrap(next)))
        THEN [st EXCEPT !.volume = ParseU32(Unwrap(next)), !.i = @ + 1]
        ELSE [st EXCEPT !.i = @ + 1]

\* The branch "Volume detection": the digits of the token itself, else the
\* next token when it is an unsigned integer (and then it is skipped).
ScanVolume(tokens, st) ==
    LET tok == tokens[st.i + 1]
        digits_only == SelectSeq(tok, LAMBDA c : c \in AsciiDigits)
        next == NextToken(tokens, st.i)
    IN  IF IsSome(ParseU32(digits_only))
        THEN [st EXCEPT !.volume = ParseU32(digits_only), !.i = @ + 1]
        ELSE IF IsSome(next) /\ IsSome(ParseU32(Unwrap(next)))
        THEN [st EXCEPT !.volume = ParseU32(Unwrap(next)), !.i = @ + 2]
        ELSE [st EXCEPT !.i = @ + 1]

\* A variant of the chapter branch that drops a prefix token without a
\* number instead of keeping it for the title.
ScanChapterPrefixDropping(tokens, st) ==
    LET tok == tokens[st.i + 1]
        suffix == TrimPrefixChars(tok)
        next == NextToken(tokens, st.i)
        takes_next ==
            suffix = << >> /\ IsSome(next) /\ IsSome(ParseFloat(Unwrap(next)))
        num == IF takes_next THEN Unwrap(next) ELSE suffix
        after == IF takes_next THEN st.i + 2 ELSE st.i + 1
    IN  IF IsSome(ParseFloat(num))
        THEN [st EXCEPT !.chapter = ParseFloat(num), !.i = after]
        ELSE [st EXCEPT !.i = after]

\* The branch "Chapter detection".
ScanChapterPrefix(tokens, st) ==
    LET tok == tokens[st.i + 1]
        suffix == TrimPrefixChars(tok)
        next == NextToken(tokens, st.i)
        takes_next ==
            suffix = << >> /\ IsSome(next) /\ IsSome(ParseFloat(Unwrap(next)))
        num == IF takes_next THEN Unwrap(next) ELSE suffix
        after == IF takes_next THEN st.i + 2 ELSE st.i + 1
    IN  IF IsSome(ParseFloat(num))
        THEN [st EXCEPT !.chapter = ParseFloat(num), !.i = after]
        ELSE [st EXCEPT !.leftovers = Append(@, tok), !.i = after]

\* A variant of the number branch in which the last number wins.
ScanNumberLastWins(tokens, st) ==
    LET tok == tokens[st.i + 1]
    IN  [st EXCEPT !.chapter = ParseFloat(tok),
                   !.leftovers = Append(@, tok),
                   !.i = @ + 1]

\* A variant of the number branch that keeps the first number out of the
\* title.
ScanNumberNotInTitle(tokens, st) ==
    LET tok == tokens[st.i + 1]
    IN  [st EXCEPT !.chapter = IF st.chapter = None THEN ParseFloat(tok) ELSE @,
                   !.leftovers = IF st.chapter = None THEN @ ELSE Append(@, tok),
                   !.i = @ + 1]

\* The branch of a token that parses as f32.
ScanNumber(tokens, st) ==
    LET tok == tokens[st.i + 1]
    IN  [st EXCEPT !.chapter = IF st.chapter = None THEN ParseFloat(tok) ELSE @,
                   !.leftovers = Append(@, tok),
                   !.i = @ + 1]

\* "Everything else = title token".
ScanTitle(tokens, st) ==
    [st EXCEPT !.leftovers = Append(@, tokens[st.i + 1]), !.i = @ + 1]

\* The branch the body of the while loop takes in state st.
ScanBranch(tokens, st) ==
    LET tok == tokens[st.i + 1]
    IN  IF IsVolumeToken(tok) THEN "volume"
        ELSE IF st.chapter = None /\ IsChapterPrefix(tok) THEN "chapter"
        ELSE IF IsSome(ParseFloat(tok)) THEN "number"
        ELSE "title"

\* One iteration of the while loop.
ScanStep(tokens, st) ==
    CASE ScanBranch(tokens, st) = "volume" -> ScanVolume(tokens, st)
      [] ScanBranch(tokens, st) = "chapter" -> ScanChapterPrefix(tokens, st)
      [] ScanBranch(tokens, st) = "number" -> ScanNumber(tokens, st)
      [] OTHER -> ScanTitle(tokens, st)

\* while i < tokens.len() { .. }
RECURSIVE ScanLoop(_, _)
ScanLoop(tokens, st) ==
    IF st.i < Len(tokens) THEN ScanLoop(tokens, ScanStep(tokens, st)) ELSE st

\* let title = if leftovers.is_empty() { None } else { Some(join(" ")) };
TitleOf(leftovers) ==
    IF leftovers = << >> THEN None ELSE Some(Join(leftovers, <<" ">>))

\* parse_filename(path, filename) as a whole: the Chapter it returns.
ParseFilename(path, filename) ==
    LET ext == ExtractTranslators(StripExtension(filename))
        tokens == TokenizePreservingBrackets(ExtractLanguage(ext.core))
        st == ScanLoop(tokens, ScanStart)
    IN  [path |-> path, volume |-> st.volume, chapter |-> st.chapter,
         title |-> TitleOf(st.leftovers), translators |-> ext.translators]

\* Path::extension(): the text after the last '.' of the file name; none
\* when there is no '.' or the only '.' is the first character.
Extension(filename) ==
    IF IsSome(RFind(filename, ".")) /\ Unwrap(RFind(filename, ".")) > 1
    THEN Some(SubSeq(filename, Unwrap(RFind(filename, ".")) + 1,
                     Len(filename)))
    ELSE None

\* The condition of get_cbz_list on a file:
\* ext.eq_ignore_ascii_case("cbz")
IsCbz(filename) ==
    /\ IsSome(Extension(filename))
    /\ ToLowercase(Unwrap(Extension(filename))) = <<"c", "b", "z">>

(***************************************************************************)
(* data.rs: the file names parse_filename is tried on: at most MaxParts    *)
(* pieces of NameParts one after the other, then one of NameEndings; and   *)
(* the names of TestNames and OtherNames.                                  *)
(***************************************************************************)
MaxParts == 3

NameParts ==
    {<<"V", "o", "l">>,
     <<"C", "h">>,
     <<"#">>,
     <<"1">>,
     <<".">>,
     <<" ">>,
     <<"-">>,
     <<"[">>,
     <<"]">>,
     <<"a">>,
     <<"[", "a", ",", " ", "b", "]">>,
     <<"(", "e", "n", ")">>,
     <<"(", "a", ")">>,
     <<".", "c", "b", "z">>}

NameEndings == {<< >>, <<".", "c", "b", "z">>, <<".", "C", "B", "Z">>}

RECURSIVE NameStems(_)
NameStems(n) ==
    IF n = 0 THEN {<< >>}
    ELSE LET shorter == NameStems(n - 1)
         IN  shorter \cup {x \o c : x \in shorter, c \in NameParts}

\* The file names of the unit tests of data.rs.
TestNames ==
    {<<"C", "h", ".", "0", "5", " ", "T", "i", "t", "l", "e", ".", "c", "b",
       "z">>,
     <<"V", "o", "l", ".", "0", "3", " ", "C", "h", ".", "1", "2", " ", "T",
       "i", "t", "l", "e", ".", "c", "b", "z">>,
     <<"C", "h", ".", "1", "0", ".", "5", ".", "c", "b", "z">>,
     <<"C", "h", ".", "0", "0", "0", "2", " ", "[", "a", "l", "p", "h", "a",
       ",", " ", "b", "e", "t", "a", "]", ".", "c", "b", "z">>,
     <<"V", "o", "l", ".", "1", " ", "C", "h", ".", "2", " ", "T", "i", "t",
       "l", "e", " ", "(", "e", "n", ")", ".", "c", "b", "z">>,
     <<"V", "o", "l", "u", "m", "e", " ", "1", "2", " ", "-", " ", "C", "h",
       "a", "p", "t", "e", "r", " ", "4", ".", "5", " ", "F", "i", "n", "a",
       "l", " ", "F", "i", "g", "h", "t", " ", "(", "e", "n", ")", " ", "[",
       "s", "c", "a", "n", "A", ",", " ", "s", "c", "a", "n", "B", "]", ".",
       "c", "b", "z">>,
     <<"S", "e", "r", "i", "e", "s", " ", "#", "7", ".", "c", "b", "z">>,
     <<"N", "i", "g", "h", "t", " ", "4", "4", ".", "c", "b", "z">>,
     <<"C", "h", ".", "0", "8", "1", ".", "4", " ", "-", " ", "H", "i", "g",
       "h", " ", "S", "c", "h", "o", "o", "l", " ", "G", "i", "r", "l", "s",
       " ", "a", "r", "e", " ", "F", "u", "n", "k", "y", ":", " ", "C", "h",
       "1", "4", " ", "-", " ", "E", "n", "d", "u", "r", "a", "n", "c", "e",
       ".", "c", "b", "z">>,
     <<"V", "o", "l", ".", "0", "3", " ", "C", "h", ".", "0", "0", "2", "2",
       " ", "-", " ", "C", "h", "i", "k", "a", " ", "F", "u", "j", "i", "w",
       "a", "r", "a", " ", "W", "a", "n", "t", "s", " ", "t", "o", " ", "b",
       "e", " ", "E", "a", "t", "e", "n", " ", "(", "e", "n", ")", " ", "[",
       "P", "s", "y", "l", "o", "c", "k", "e", " ", "S", "c", "a", "n", "s",
       "]", ".", "c", "b", "z">>,
     <<"V", "o", "l", ".", "0", "2", " ", "C", "h", ".", "0", "0", "0", "6",
       " ", "-", " ", "E", "p", "i", "s", "o", "d", "e", " ", "6", " ", "(",
       "e", "n", ")", " ", "[", "I", " ", "p", "o", "s", "t", " ", "w", "h",
       "a", "t", " ", "I", " ", "l", "i", "k", "e", "]", ".", "c", "b",
       "z">>,
     <<"C", "h", "a", "p", " ", "3", ":", " ", "T", "h", "e", " ", "D", "e",
       "s", "i", "r", "e", " ", "t", "o", " ", "B", "e", " ", "#", "1", ".",
       "c", "b", "z">>,
     <<"V", "o", "l", ".", "0", "2", " ", "C", "h", ".", "0", "0", "1", "5",
       ".", "5", " ", "-", " ", "V", "o", "l", "u", "m", "e", "[", "1", "-",
       "2", "]", " ", "I", "l", "l", "u", "s", "t", "r", "a", "t", "i", "o",
       "n", "s", " ", "(", "e", "n", ")", " ", "[", "R", "O", "C", "K", "-",
       "p", "a", "p", "e", "r", "-", "S", "C", "I", "S", "S", "O", "R", "S",
       "]", ".", "c", "b", "z">>,
     <<"S", "p", "e", "c", "i", "a", "l", " ", " ", " ", " ", " ", " ", " ",
       " ", " ", " ", " ", ":", " ", "S", "p", "e", "c", "i", "a", "l", " ",
       "C", "h", "a", "p", "t", "e", "r", ".", "c", "b", "z">>,
     <<"C", "h", "a", "p", "t", "e", "r", " ", "2", "9", " ", " ", " ", " ",
       " ", " ", " ", " ", " ", " ", " ", ":", " ", "C", "h", "e", "e", "p",
       " ", "T", "a", "l", "k", ".", "c", "b", "z">>}

\* File names where text follows a group, a bracket is not closed, a word
\* begins with a prefix, a prefix has no number, or a token is "nan".
OtherNames ==
    {<<"V", "o", "l", "c", "a", "n", "o", " ", "I", "s", "l", "a", "n", "d",
       ".", "c", "b", "z">>,
     <<"C", "h", ".", "1", " ", "[", "g", "r", "p", "]", " ", "T", "i", "t",
       "l", "e", ".", "c", "b", "z">>,
     <<"T", "i", "t", "l", "e", " ", "(", "e", "n", ")", " ", "e", "x", "t",
       "r", "a", ".", "c", "b", "z">>,
     <<"T", "i", "t", "l", "e", "]", " ", "p", "a", "r", "t", " ", "t", "w",
       "o", ".", "c", "b", "z">>,
     <<"C", "h", " ", "a", " ", "2", ".", "c", "b", "z">>,
     <<"C", "h", "1", " ", "V", "o", "l", " ", "2", " ", "3", ".", "c", "b",
       "z">>,
     <<"C", "h", "1", "a", " ", "C", "h", "2", ".", "c", "b", "z">>,
     <<"V", "o", "l", "1", "a", "2", " ", "x", ".", "c", "b", "z">>,
     <<"m", " ", "n", "a", "n", ".", "c", "b", "z">>}

ComposedNames == {x \o e : x \in NameStems(MaxParts), e \in NameEndings}

FileNames == ComposedNames \cup TestNames \cup OtherNames

(***************************************************************************)
(* ui/list.rs: the order of Chapter, and the sorted chapter list of one    *)
(* series folder (get_series_list, handle_refresh).                        *)
(***************************************************************************)
\* The characters of the file names in the order of their codes.
AsciiOrder ==
    <<" ", "#", "(", ")", ",", "-", ".">> \o <<"0", "1", "2", "3", "4", "5", "6", "7", "8", "9">> \o <<":">>
        \o UpperAlphabet \o <<"[", "]">> \o LowerAlphabet

CharRank(c) == CHOOSE k \in DOMAIN AsciiOrder : AsciiOrder[k] = c

\* self.path.cmp(&other.path) for two files of one folder: the file names,
\* byte by byte.
RECURSIVE PathCmp(_, _)
PathCmp(a, b) ==
    IF Len(a) = 0 /\ Len(b) = 0 THEN "Equal"
    ELSE IF Len(a) = 0 THEN "Less"
    ELSE IF Len(b) = 0 THEN "Greater"
    ELSE IF CharRank(Head(a)) < CharRank(Head(b)) THEN "Less"
    ELSE IF CharRank(Head(a)) > CharRank(Head(b)) THEN "Greater"
    ELSE PathCmp(Tail(a), Tail(b))

RECURSIVE Pow10(_)
Pow10(n) == IF n = 0 THEN 1 ELSE 10 * Pow10(n - 1)

\* f32::partial_cmp: None when either side is NaN.
FloatPartialCmp(x, y) ==
    IF x.kind = "nan" \/ y.kind = "nan" THEN None
    ELSE IF x.kind = "inf" /\ y.kind = "inf" THEN Some("Equal")
    ELSE IF x.kind = "inf" THEN Some("Greater")
    ELSE IF y.kind = "inf" THEN Some("Less")
    ELSE LET l == x.mant * Pow10(y.exp)
             r == y.mant * Pow10(x.exp)
         IN  IF l < r THEN Some("Less")
             ELSE IF l > r THEN Some("Greater")
             ELSE Some("Equal")

\* self.chapter.unwrap_or(0.0)
ChapterOrZero(c) == IF c.chapter = None THEN Float(0, 0) ELSE Unwrap(c.chapter)

\* impl Ord for Chapter: cmp
ChapterCmp(a, b) ==
    LET o == FloatPartialCmp(ChapterOrZero(a), ChapterOrZero(b))
        by_number == IF o = None THEN "Equal" ELSE Unwrap(o)
    IN  IF by_number = "Equal" THEN PathCmp(a.path, b.path) ELSE by_number

\* Option<f32> ==: two None, or two Some of floats that are equal (f32 ==
\* is false when either side is NaN).
OptionFloatEq(x, y) ==
    IF x = None \/ y = None THEN x = y
    ELSE FloatPartialCmp(Unwrap(x), Unwrap(y)) = Some("Equal")

\* impl PartialEq for Chapter: eq
ChapterEq(a, b) == a.volume = b.volume /\ OptionFloatEq(a.chapter, b.chapter)

\* Whether cmp is a total order on the chapters of S.
TotalOrderOn(S) ==
    /\ \A a, b \in S : ChapterCmp(a, b) = "Equal" <=> a = b
    /\ \A a, b \in S : ChapterCmp(a, b) = "Less" <=> ChapterCmp(b, a) = "Greater"
    /\ \A a, b, c \in S :
          (ChapterCmp(a, b) = "Less" /\ ChapterCmp(b, c) = "Less")
              => ChapterCmp(a, c) = "Less"

\* The orders a Vec of the chapters of S may be in.
Arrangements(S) ==
    {l \in [1..Cardinality(S) -> S] :
        \A i, j \in 1..Cardinality(S) : i # j => l[i] # l[j]}

\* chapters.sort(): with a total order, the one ascending arrangement;
\* without, slice::sort leaves the elements in an unspecified order (or
\* panics: see SortMayPanic).
Sorted(S) ==
    IF TotalOrderOn(S)
    THEN {l \in Arrangements(S) :
             \A i, j \in DOMAIN l : i < j => ChapterCmp(l[i], l[j]) = "Less"}
    ELSE Arrangements(S)

\* slice::sort may panic when Ord is not a total order on the elements.
SortMayPanic(S) == ~TotalOrderOn(S)

\* The names a file of the series folder may have.
FolderNames ==
    {<<"z", " ", "1", ".", "c", "b", "z">>,
     <<"m", " ", "n", "a", "n", ".", "c", "b", "z">>,
     <<"a", " ", "2", ".", "c", "b", "z">>,
     <<"b", ".", "c", "b", "z">>,
     <<"c", " ", "0", ".", "c", "b", "z">>,
     <<"d", " ", "1", ".", "0", ".", "c", "b", "z">>,
     <<"n", ".", "t", "x", "t">>}

\* parse_filename(path, name) for each of them.
ParsedNames == [n \in FolderNames |-> ParseFilename(n, n)]

\* get_cbz_list(path): a Chapter for every file of the folder whose
\* extension is cbz in any letter case, in the order of read_dir.
GetCbzList(dir) == {ParsedNames[n] : n \in {x \in dir : IsCbz(x)}}

\* The files a series folder may hold, at most MaxDir at a time.
MaxDir == 3

MaxRefreshes == 2

Folders == {d \in SUBSET FolderNames : Cardinality(d) <= MaxDir}

(***************************************************************************)
(* State.                                                                  *)
(***************************************************************************)
VARIABLES
    \* -- the codec: one encode / decode run
    cpc,        \* "input", "encoded", "decoded" ("off" outside SpecCodec)
    cmode,      \* "roundtrip" (encode, then decode) or "decode"
    crec,       \* the record given to encode
    cdoc,       \* the content given to decode
    cout,       \* the record decode returned
    \* -- modify_zip on the file at input_path
    file,       \* what the file holds
    file0,      \* what the file held when the current call began
    pc,         \* the position of modify_zip: "read", "parse", "loop",
                \* "add", "finish", "write", "done" ("off": no call)
    zip,        \* the entries of the archive read (ZipArchive)
    idx,        \* the loop index i, counted from 1
    out,        \* the entries written to the ZipWriter so far
    found,      \* found_comic_info
    result,     \* "none" while running, "ok", or the step that failed
    nwrites,    \* the writes to the file in the current call
    cand,       \* new_comic_info
    updater,    \* the merge policy
    calls,      \* the calls begun so far
    \* -- one batch call
    bop,        \* the batch operation
    chapters,   \* its targets, in submission order
    binfo,      \* its comic_info argument
    limit,      \* concurrency_limit = num_cpus::get()
    bfile,      \* what the file of each target holds
    bfile0,     \* what it held when the batch began
    tstate,     \* each target: "pending" (not yet taken from the stream),
                \* "running" (in the buffer, its task spawned), "finished"
                \* (its task has ended), "collected" (its result is in the Vec)
    tres,       \* the result of each target's rewrite, "none" before it ends
    order,      \* the targets whose task has ended, in the order they ended
    ncollected, \* how many of them the stream has yielded
    sent,       \* the messages sent to status_tx, in order
    bpc,        \* "collecting", "returned" ("off": no batch)
    bret,       \* what the batch call returned
    receivers,  \* whether a Receiver of the status channel is alive
    \* -- a merge policy applied to a pair of records
    mpc,        \* "input", "merged", "repeated", "reapplied" ("off")
    mupdater,   \* the merge policy
    mold,       \* the existing record
    mnew,       \* the candidate
    merged,     \* updater(old, new)
    merged2,    \* updater(old, new), evaluated a second time
    merged3,    \* updater(merged, new)
    \* -- parse_filename(path, filename)
    pf_pc,          \* "name", "translators", "language", "tokenize",
                    \* "scan", "returned" ("off")
    pf_filename,    \* filename
    pf_core,        \* name, then core
    pf_translators, \* translators
    pf_tokens,      \* tokens
    pf_scan,        \* [i, volume, chapter, leftovers]
    pf_ret,         \* the Chapter returned (the path is the file name)
    \* -- the chapter list of one series folder
    ls_pc,          \* "start", "ui", "failed", "panicked" ("off")
    ls_dir,         \* the names of the files in the folder
    ls_chapters,    \* series.chapters.items
    ls_refreshes,   \* the calls of handle_refresh so far
    ls_status,      \* the last message sent on status_tx
    \* -- the App: panes, selections, the metadata form and its loads
    current_tab,        \* "SeriesList", "ChaptersList", "Metadata" ("off")
    input_mode,         \* "Normal", "Editing"
    series_state,       \* series_list.state.selected()
    chapters_len,       \* per series: series.chapters.items_state.len()
    chapters_state,     \* per series: series.chapters.state.selected()
    chapters_selected,  \* per series: series.chapters.selected, the marks
    comic,              \* comic_manager.comic: Loading or Ready(form)
    comic_rx,           \* comic_manager.comic_rx, with the task that sends to it
    pending_selection,  \* pending_selection
    rewritesInFlight,   \* per chapter file: the rewrites of it spawned and not ended
    panicked,           \* the handler that indexed out of bounds, or "none"
    \* -- the image manager
    im_pc,              \* "on" ("off"; "panicked" after an overflow panic)
    im_build,           \* whether the build checks arithmetic overflow
    images,             \* ImagesState: Loading or Ready with a count
    images_rx,          \* images_rx, with the decode task that sends to it
    current             \* the current page index

codecVars == <<cpc, cmode, crec, cdoc, cout>>

rwVars ==
    <<file, file0, pc, zip, idx, out, found, result, nwrites, cand, updater,
      calls>>

batchVars ==
    <<bop, chapters, binfo, limit, bfile, bfile0, tstate, tres, order,
      ncollected, sent, bpc, bret, receivers>>

mergeVars == <<mpc, mupdater, mold, mnew, merged, merged2, merged3>>

parseVars ==
    <<pf_pc, pf_filename, pf_core, pf_translators, pf_tokens, pf_scan, pf_ret>>

listVars == <<ls_pc, ls_dir, ls_chapters, ls_refreshes, ls_status>>

uiVars ==
    <<current_tab, input_mode, series_state, chapters_len, chapters_state,
      chapters_selected, comic, comic_rx, pending_selection, rewritesInFlight,
      panicked>>

imVars == <<im_pc, im_build, images, images_rx, current>>

vars ==
    <<codecVars, rwVars, batchVars, mergeVars, parseVars, listVars, uiVars,
      imVars>>

\* What the steps of one subsystem leave alone: the other subsystems.
CodecFrame ==
    UNCHANGED <<rwVars, batchVars, mergeVars, parseVars, listVars, uiVars, imVars>>

RwFrame ==
    UNCHANGED <<codecVars, batchVars, mergeVars, parseVars, listVars, uiVars, imVars>>

BatchFrame ==
    UNCHANGED <<codecVars, rwVars, mergeVars, parseVars, listVars, uiVars, imVars>>

MergeFrame ==
    UNCHANGED <<codecVars, rwVars, batchVars, parseVars, listVars, uiVars, imVars>>

ParseFrame ==
    UNCHANGED <<codecVars, rwVars, batchVars, mergeVars, listVars, uiVars, imVars>>

ListFrame ==
    UNCHANGED <<codecVars, rwVars, batchVars, mergeVars, parseVars, uiVars, imVars>>

UiFrame ==
    UNCHANGED <<codecVars, rwVars, batchVars, mergeVars, parseVars, listVars,
                imVars>>

ImFrame ==
    UNCHANGED <<codecVars, rwVars, batchVars, mergeVars, parseVars, listVars,
                uiVars>>

\* No App is running.
UiOff ==
    /\ current_tab = "off"
    /\ input_mode = "Normal"
    /\ series_state = None
    /\ chapters_len = << >>
    /\ chapters_state = << >>
    /\ chapters_selected = << >>
    /\ comic = [state |-> "Loading"]
    /\ comic_rx = None
    /\ pending_selection = None
    /\ rewritesInFlight = << >>
    /\ panicked = "none"

\* No image manager is running.
ImOff ==
    /\ im_pc = "off"
    /\ im_build = "debug"
    /\ images = [state |-> "Loading"]
    /\ images_rx = None
    /\ current = 0

\* Chapter::default() with the given path.
NoChapter(path) ==
    [path |-> path, volume |-> None, chapter |-> None, title |-> None,
     translators |-> << >>]

\* No series folder is shown.
ListOff ==
    /\ ls_pc = "off"
    /\ ls_dir = {}
    /\ ls_chapters = << >>
    /\ ls_refreshes = 0
    /\ ls_status = ""

\* No call of parse_filename is running.
ParseOff ==
    /\ pf_pc = "off"
    /\ pf_filename = << >>
    /\ pf_core = << >>
    /\ pf_translators = << >>
    /\ pf_tokens = << >>
    /\ pf_scan = ScanStart
    /\ pf_ret = NoChapter(<< >>)

\* No merge is being evaluated.
MergeOff ==
    /\ mpc = "off"
    /\ mupdater = "replace_all"
    /\ mold = DefaultComicInfo
    /\ mnew = DefaultComicInfo
    /\ merged = DefaultComicInfo
    /\ merged2 = DefaultComicInfo
    /\ merged3 = DefaultComicInfo

\* The codec is not running.
CodecOff ==
    /\ cpc = "off"
    /\ cmode = "decode"
    /\ crec = DefaultComicInfo
    /\ cdoc = XmlContent(0, EmptyDoc)
    /\ cout = DefaultComicInfo

\* The values of bret: nothing yet, Ok(()), Err of target t's error e.
NoReturn == [kind |-> "none", err |-> "", target |-> 0]

ReturnOk == [kind |-> "ok", err |-> "", target |-> 0]

ReturnErr(e, t) == [kind |-> "err", err |-> e, target |-> t]

\* No batch call is running.
BatchOff ==
    /\ bop = "save_series_info"
    /\ chapters = << >>
    /\ binfo = DefaultComicInfo
    /\ limit = 1
    /\ bfile = << >>
    /\ bfile0 = << >>
    /\ tstate = << >>
    /\ tres = << >>
    /\ order = << >>
    /\ ncollected = 0
    /\ sent = << >>
    /\ bpc = "off"
    /\ bret = NoReturn
    /\ receivers = TRUE

\* No call of modify_zip is running.
RewriteOff ==
    /\ file = NoFile
    /\ file0 = NoFile
    /\ pc = "off"
    /\ zip = << >>
    /\ idx = 1
    /\ out = << >>
    /\ found = FALSE
    /\ result = "none"
    /\ nwrites = 0
    /\ cand = DefaultComicInfo
    /\ updater = "replace_all"
    /\ calls = 0

(***************************************************************************)
(* SpecCodec: to_string on a record and from_str(..).unwrap_or_default()   *)
(* on the result, or on a document drawn from SampleDocs.                  *)
(***************************************************************************)
CodecInit ==
    /\ ParseOff
    /\ ListOff
    /\ RewriteOff
    /\ BatchOff
    /\ MergeOff
    /\ UiOff
    /\ ImOff
    /\ cpc = "input"
    /\ cout = DefaultComicInfo
    /\ \/ /\ cmode = "roundtrip"
          /\ crec \in SampleRecords
          /\ cdoc = XmlContent(0, EmptyDoc)
       \/ /\ cmode = "decode"
          /\ crec = DefaultComicInfo
          /\ cdoc \in {XmlContent(0, d) : d \in SampleDocs}
                        \cup {MalformedContent}

\* to_string(&record)
CodecEncode ==
    /\ cpc = "input"
    /\ cmode = "roundtrip"
    /\ cdoc' = XmlContent(0, ToDoc(crec))
    /\ cpc' = "encoded"
    /\ UNCHANGED <<cmode, crec, cout>>
    /\ CodecFrame

\* from_str(&content).unwrap_or_default()
CodecDecode ==
    /\ \/ cpc = "encoded"
       \/ cpc = "input" /\ cmode = "decode"
    /\ cout' = Decode(cdoc)
    /\ cpc' = "decoded"
    /\ UNCHANGED <<cmode, crec, cdoc>>
    /\ CodecFrame

CodecNext == CodecEncode \/ CodecDecode

SpecCodec == CodecInit /\ [][CodecNext]_vars

(***************************************************************************)
(* SpecRewrite: modify_zip(input_path, new_comic_info, updater), one       *)
(* action per step and per outcome of the step, called MaxCalls times on   *)
(* the same file.  The locals of a call are dropped when it returns.       *)
(***************************************************************************)
\* The locals of modify_zip before its first statement and after it returns.
NoLocals ==
    /\ zip' = << >>
    /\ idx' = 1
    /\ out' = << >>
    /\ found' = FALSE

\* modify_zip returns: Err(e) for a step that failed, Ok(()) otherwise.
Return(r) ==
    /\ pc' = "done"
    /\ result' = r
    /\ NoLocals

RewriteInit ==
    /\ ParseOff
    /\ ListOff
    /\ CodecOff
    /\ BatchOff
    /\ MergeOff
    /\ UiOff
    /\ ImOff
    /\ file \in SampleFiles
    /\ file0 = file
    /\ pc = "read"
    /\ zip = << >>
    /\ idx = 1
    /\ out = << >>
    /\ found = FALSE
    /\ result = "none"
    /\ nwrites = 0
    /\ cand \in Candidates
    /\ updater \in Updaters
    /\ calls = 1

\* The next call of modify_zip on the same path.
RwCall ==
    /\ pc = "done"
    /\ calls < MaxCalls
    /\ calls' = calls + 1
    /\ pc' = "read"
    /\ file0' = file
    /\ result' = "none"
    /\ nwrites' = 0
    /\ cand' \in Candidates
    /\ updater' \in Updaters
    /\ UNCHANGED <<file, zip, idx, out, found>>
    /\ RwFrame

\* let input_zip = fs::read(input_path)?;
RwReadOk ==
    /\ pc = "read"
    /\ file.kind # "absent"
    /\ pc' = "parse"
    /\ UNCHANGED <<file, file0, zip, idx, out, found, result, nwrites, cand,
                   updater, calls>>
    /\ RwFrame

RwReadFail ==
    /\ pc = "read"
    /\ file.kind = "absent"
    /\ Return("read")
    /\ UNCHANGED <<file, file0, nwrites, cand, updater, calls>>
    /\ RwFrame

\* let mut zip = ZipArchive::new(reader)?; the writer starts empty.
RwParseOk ==
    /\ pc = "parse"
    /\ file.kind = "zip"
    /\ zip' = file.entries
    /\ out' = << >>
    /\ found' = FALSE
    /\ idx' = 1
    /\ pc' = "loop"
    /\ UNCHANGED <<file, file0, result, nwrites, cand, updater, calls>>
    /\ RwFrame

RwParseFail ==
    /\ pc = "parse"
    /\ file.kind # "zip"
    /\ Return("parse")
    /\ UNCHANGED <<file, file0, nwrites, cand, updater, calls>>
    /\ RwFrame

\* One iteration of the loop on an entry that is not ComicInfo.xml:
\* copy_file(&mut writer, &mut src, &name, &opts)?
RwCopy ==
    /\ pc = "loop"
    /\ idx <= Len(zip)
    /\ zip[idx].name # ComicInfoName
    /\ CopyFileOk(zip[idx])
    /\ out' = Append(out, CopyFile(zip[idx], zip[idx].name,
                                   FileOptions(zip[idx])))
    /\ idx' = idx + 1
    /\ UNCHANGED <<file, file0, pc, zip, found, result, nwrites, cand,
                   updater, calls>>
    /\ RwFrame

\* A variant of the failing copy in which the file had been opened for
\* writing, and so truncated, before the loop.
RwCopyFailTruncated ==
    /\ pc = "loop"
    /\ idx <= Len(zip)
    /\ zip[idx].name # ComicInfoName
    /\ ~CopyFileOk(zip[idx])
    /\ file' = TruncatedFile
    /\ nwrites' = nwrites + 1
    /\ Return("entry")
    /\ UNCHANGED <<file0, cand, updater, calls>>
    /\ RwFrame

RwCopyFail ==
    /\ pc = "loop"
    /\ idx <= Len(zip)
    /\ zip[idx].name # ComicInfoName
    /\ ~CopyFileOk(zip[idx])
    /\ Return("entry")
    /\ UNCHANGED <<file, file0, nwrites, cand, updater, calls>>
    /\ RwFrame

\* One iteration of the loop on ComicInfo.xml: found_comic_info = true;
\* write_comic_info(&mut writer, &mut src, new_comic_info, updater, &opts)?
RwComicInfo ==
    /\ pc = "loop"
    /\ idx <= Len(zip)
    /\ zip[idx].name = ComicInfoName
    /\ ReadToStringOk(zip[idx])
    /\ found' = TRUE
    /\ out' = Append(out, WriteComicInfo(zip[idx], cand, updater,
                                         FileOptions(zip[idx])))
    /\ idx' = idx + 1
    /\ UNCHANGED <<file, file0, pc, zip, result, nwrites, cand, updater,
                   calls>>
    /\ RwFrame

\* src.read_to_string(&mut content)? fails.
RwComicInfoReadFail ==
    /\ pc = "loop"
    /\ idx <= Len(zip)
    /\ zip[idx].name = ComicInfoName
    /\ ~ReadToStringOk(zip[idx])
    /\ Return("entry")
    /\ UNCHANGED <<file, file0, nwrites, cand, updater, calls>>
    /\ RwFrame

\* to_string(&updated_info)? fails, in write_comic_info or in
\* add_new_comic_info (the serializer returns a Result).
RwEncodeFail ==
    /\ \/ /\ pc = "loop"
          /\ idx <= Len(zip)
          /\ zip[idx].name = ComicInfoName
          /\ ReadToStringOk(zip[idx])
       \/ pc = "add"
    /\ Return("encode")
    /\ UNCHANGED <<file, file0, nwrites, cand, updater, calls>>
    /\ RwFrame

\* The loop ends: if !found_comic_info { add_new_comic_info(..)? }
RwLoopEnd ==
    /\ pc = "loop"
    /\ idx > Len(zip)
    /\ pc' = IF found THEN "finish" ELSE "add"
    /\ UNCHANGED <<file, file0, zip, idx, out, found, result, nwrites, cand,
                   updater, calls>>
    /\ RwFrame

RwAdd ==
    /\ pc = "add"
    /\ out' = Append(out, AddNewComicInfo(cand, updater))
    /\ pc' = "finish"
    /\ UNCHANGED <<file, file0, zip, idx, found, result, nwrites, cand,
                   updater, calls>>
    /\ RwFrame

\* writer.finish()?: the central directory is written to the buffer.
RwFinish ==
    /\ pc = "finish"
    /\ pc' = "write"
    /\ UNCHANGED <<file, file0, zip, idx, out, found, result, nwrites, cand,
                   updater, calls>>
    /\ RwFrame

\* fs::write(input_path, &out_buf)? succeeds: the file holds the new archive.
RwWriteOk ==
    /\ pc = "write"
    /\ file' = ZipFile(out)
    /\ nwrites' = nwrites + 1
    /\ Return("ok")
    /\ UNCHANGED <<file0, cand, updater, calls>>
    /\ RwFrame

\* fs::write fails to open the file for writing: nothing is written.
RwWriteFailOpen ==
    /\ pc = "write"
    /\ Return("write")
    /\ UNCHANGED <<file, file0, nwrites, cand, updater, calls>>
    /\ RwFrame

\* fs::write opens the file, which truncates it, and write_all fails
\* part-way (disk full, I/O error): the file holds a prefix of the buffer.
RwWriteFailPartial ==
    /\ pc = "write"
    /\ file' = TruncatedFile
    /\ nwrites' = nwrites + 1
    /\ Return("write")
    /\ UNCHANGED <<file0, cand, updater, calls>>
    /\ RwFrame

RewriteNext ==
    \/ RwCall
    \/ RwReadOk
    \/ RwReadFail
    \/ RwParseOk
    \/ RwParseFail
    \/ RwCopy
    \/ RwCopyFail
    \/ RwComicInfo
    \/ RwComicInfoReadFail
    \/ RwEncodeFail
    \/ RwLoopEnd
    \/ RwAdd
    \/ RwFinish
    \/ RwWriteOk
    \/ RwWriteFailOpen
    \/ RwWriteFailPartial

SpecRewrite == RewriteInit /\ [][RewriteNext]_vars

(***************************************************************************)
(* SpecBatch: save_series_info, update_chapter_numbering and               *)
(* update_volume_numbering.  The three run                                 *)
(*   stream::iter(chapters).map(rewrite).buffer_unordered(limit)           *)
(*       .collect::<Vec<_>>().await.into_iter().collect::<Result<..>>()?   *)
(* and then send the summary.  buffer_unordered takes the next future from *)
(* the stream while fewer than limit are in its buffer; the first poll of  *)
(* a future (process_chapter_info) sends the status message and spawns the *)
(* blocking task; the stream yields the results in the order the tasks     *)
(* end.  A task runs modify_zip on its own file, so the call is one step.  *)
(***************************************************************************)
Targets == 1..Len(chapters)

\* The futures in the buffer of buffer_unordered.
InBuffer == {t \in Targets : tstate[t] \in {"running", "finished"}}

\* A variant without the limit (every future is started at once).
CanPullUnbounded == TRUE

\* while this.in_progress_queue.len() < *this.max
CanPull == Cardinality(InBuffer) < limit

\* A variant that stops collecting at the first Err (try_collect).
CollectDoneFailFast ==
    \/ ncollected = Len(chapters)
    \/ \E k \in 1..ncollected : tres[order[k]] # "ok"

\* collect::<Vec<_>>() has every result: the stream is exhausted.
CollectDone == ncollected = Len(chapters)

\* The targets in the Vec, in completion order.
Collected == SubSeq(order, 1, ncollected)

\* A variant that reports the failed target of the lowest index.
FirstFailedByIndex ==
    CHOOSE t \in Targets :
        tres[t] # "ok" /\ \A u \in Targets : tres[u] # "ok" => t <= u

\* into_iter().collect::<Result<Vec<_>, _>>(): the first Err of the Vec.
FirstFailed ==
    Collected[CHOOSE k \in 1..ncollected :
                 /\ tres[Collected[k]] # "ok"
                 /\ \A j \in 1..(k - 1) : tres[Collected[j]] = "ok"]

BatchInit ==
    /\ ParseOff
    /\ ListOff
    /\ CodecOff
    /\ RewriteOff
    /\ MergeOff
    /\ UiOff
    /\ ImOff
    /\ bop \in BatchOps
    /\ \E n \in 0..MaxTargets :
          /\ chapters = [t \in 1..n |-> SampleChapter(t)]
          /\ bfile \in [1..n -> BatchFiles]
          /\ tstate = [t \in 1..n |-> "pending"]
          /\ tres = [t \in 1..n |-> "none"]
    /\ bfile0 = bfile
    /\ binfo = Cand1
    /\ limit \in 1..MaxParallel
    /\ order = << >>
    /\ ncollected = 0
    /\ sent = << >>
    /\ bpc = "collecting"
    /\ bret = NoReturn
    /\ receivers \in BOOLEAN

\* buffer_unordered takes the next future of the stream and polls it:
\* process_chapter_info sends "Processing i/n: title" and spawns the task.
BatchStart(t) ==
    /\ bpc = "collecting"
    /\ tstate[t] = "pending"
    /\ \A u \in 1..(t - 1) : tstate[u] # "pending"
    /\ CanPull
    /\ sent' = sent \o StartMessages(t, Len(chapters), GetTitle(chapters[t]))
    /\ tstate' = [tstate EXCEPT ![t] = "running"]
    /\ UNCHANGED receivers
    /\ UNCHANGED <<bop, chapters, binfo, limit, bfile, bfile0, tres, order,
                   ncollected, bpc, bret>>
    /\ BatchFrame

\* The blocking task of target t runs process_fn(&chapter.path, &info) to
\* its end.
TaskEnd(t) ==
    /\ tstate[t] = "running"
    /\ \E o \in ModifyZipOutcomes(bfile[t],
                                  BatchInfo(bop, chapters[t], binfo),
                                  BatchUpdater(bop)) :
          /\ bfile' = [bfile EXCEPT ![t] = o.file]
          /\ tres' = [tres EXCEPT ![t] = o.result]
    /\ tstate' = [tstate EXCEPT ![t] = "finished"]
    /\ order' = Append(order, t)
    /\ UNCHANGED <<bop, chapters, binfo, limit, bfile0, ncollected, sent,
                   bpc, bret>>
    /\ UNCHANGED receivers
    /\ BatchFrame

\* The blocking task of target t terminates abnormally: the JoinHandle
\* gives a JoinError, which the first ? turns into the error of the target.
TaskAbort(t) ==
    /\ tstate[t] = "running"
    /\ tres' = [tres EXCEPT ![t] = "join"]
    /\ tstate' = [tstate EXCEPT ![t] = "finished"]
    /\ order' = Append(order, t)
    /\ UNCHANGED <<bop, chapters, binfo, limit, bfile, bfile0, ncollected,
                   sent, bpc, bret>>
    /\ UNCHANGED receivers
    /\ BatchFrame

\* The stream yields the result of the next task that ended; collect pushes
\* it to the Vec.
BatchCollect ==
    /\ bpc = "collecting"
    /\ ncollected < Len(order)
    /\ tstate' = [tstate EXCEPT ![order[ncollected + 1]] = "collected"]
    /\ ncollected' = ncollected + 1
    /\ UNCHANGED <<bop, chapters, binfo, limit, bfile, bfile0, tres, order,
                   sent, bpc, bret>>
    /\ UNCHANGED receivers
    /\ BatchFrame

\* Every result is Ok: the summary is sent and the call returns Ok(()).
BatchReturnOk ==
    /\ bpc = "collecting"
    /\ CollectDone
    /\ \A t \in Targets : tres[t] = "ok"
    /\ sent' = Append(sent, SummaryMessage(Len(chapters)))
    /\ bret' = ReturnOk
    /\ UNCHANGED receivers
    /\ bpc' = "returned"
    /\ UNCHANGED <<bop, chapters, binfo, limit, bfile, bfile0, tstate, tres,
                   order, ncollected>>
    /\ BatchFrame

\* Some result is Err: the ? returns the first one of the Vec, before the
\* summary is sent.
BatchReturnErr ==
    /\ bpc = "collecting"
    /\ CollectDone
    /\ \E k \in 1..ncollected : tres[Collected[k]] # "ok"
    /\ bret' = ReturnErr(tres[FirstFailed], FirstFailed)
    /\ bpc' = "returned"
    /\ UNCHANGED <<bop, chapters, binfo, limit, bfile, bfile0, tstate, tres,
                   order, ncollected, sent>>
    /\ UNCHANGED receivers
    /\ BatchFrame

BatchNext ==
    \/ \E t \in Targets : BatchStart(t)
    \/ \E t \in Targets : TaskEnd(t)
    \/ \E t \in Targets : TaskAbort(t)
    \/ BatchCollect
    \/ BatchReturnOk
    \/ BatchReturnErr

SpecBatch == BatchInit /\ [][BatchNext]_vars

(***************************************************************************)
(* SpecMerge: a merge policy (ComicInfoUpdater) applied to an existing     *)
(* record and a candidate, evaluated again on the same pair, and applied   *)
(* to its own result.                                                      *)
(***************************************************************************)
MergeInit ==
    /\ ParseOff
    /\ ListOff
    /\ CodecOff
    /\ RewriteOff
    /\ BatchOff
    /\ UiOff
    /\ ImOff
    /\ mpc = "input"
    /\ mupdater \in Updaters
    /\ mold \in MergeExisting
    /\ mnew \in MergeCandidates
    /\ merged = DefaultComicInfo
    /\ merged2 = DefaultComicInfo
    /\ merged3 = DefaultComicInfo

\* let updated_info = updater(old, new_info);
MergeApply ==
    /\ mpc = "input"
    /\ merged' = ApplyUpdater(mupdater, mold, mnew)
    /\ mpc' = "merged"
    /\ UNCHANGED <<mupdater, mold, mnew, merged2, merged3>>
    /\ MergeFrame

\* The same call on the same pair.
MergeRepeat ==
    /\ mpc = "merged"
    /\ merged2' = ApplyUpdater(mupdater, mold, mnew)
    /\ mpc' = "repeated"
    /\ UNCHANGED <<mupdater, mold, mnew, merged, merged3>>
    /\ MergeFrame

\* The call on the result of the first and the same candidate (what the
\* next rewrite of the same archive with the same candidate computes).
MergeReapply ==
    /\ mpc = "repeated"
    /\ merged3' = ApplyUpdater(mupdater, merged, mnew)
    /\ mpc' = "reapplied"
    /\ UNCHANGED <<mupdater, mold, mnew, merged, merged2>>
    /\ MergeFrame

MergeNext == MergeApply \/ MergeRepeat \/ MergeReapply

SpecMerge == MergeInit /\ [][MergeNext]_vars

(***************************************************************************)
(* SpecParse: parse_filename(path, filename), one action per statement and *)
(* per branch of the token scan.                                           *)
(***************************************************************************)
ParseInit ==
    /\ CodecOff
    /\ RewriteOff
    /\ BatchOff
    /\ MergeOff
    /\ ListOff
    /\ UiOff
    /\ ImOff
    /\ pf_pc = "name"
    /\ pf_filename \in FileNames
    /\ pf_core = << >>
    /\ pf_translators = << >>
    /\ pf_tokens = << >>
    /\ pf_scan = ScanStart
    /\ pf_ret = NoChapter(<< >>)

\* let name = filename.trim_end_matches(".cbz"); let mut core = name..
PfName ==
    /\ pf_pc = "name"
    /\ pf_core' = StripExtension(pf_filename)
    /\ pf_pc' = "translators"
    /\ UNCHANGED <<pf_filename, pf_translators, pf_tokens, pf_scan, pf_ret>>
    /\ ParseFrame

\* Extract translators [ ... ]
PfTranslators ==
    /\ pf_pc = "translators"
    /\ pf_translators' = ExtractTranslators(pf_core).translators
    /\ pf_core' = ExtractTranslators(pf_core).core
    /\ pf_pc' = "language"
    /\ UNCHANGED <<pf_filename, pf_tokens, pf_scan, pf_ret>>
    /\ ParseFrame

\* Extract language tag (en) (jp) etc.
PfLanguage ==
    /\ pf_pc = "language"
    /\ pf_core' = ExtractLanguage(pf_core)
    /\ pf_pc' = "tokenize"
    /\ UNCHANGED <<pf_filename, pf_translators, pf_tokens, pf_scan, pf_ret>>
    /\ ParseFrame

\* let tokens = tokenize_preserving_brackets(&core); let mut i = 0; ..
PfTokenize ==
    /\ pf_pc = "tokenize"
    /\ pf_tokens' = TokenizePreservingBrackets(pf_core)
    /\ pf_scan' = ScanStart
    /\ pf_pc' = "scan"
    /\ UNCHANGED <<pf_filename, pf_core, pf_translators, pf_ret>>
    /\ ParseFrame

\* One iteration of the while loop that takes branch b.
PfScan(b) ==
    /\ pf_pc = "scan"
    /\ pf_scan.i < Len(pf_tokens)
    /\ ScanBranch(pf_tokens, pf_scan) = b
    /\ pf_scan' = ScanStep(pf_tokens, pf_scan)
    /\ UNCHANGED <<pf_pc, pf_filename, pf_core, pf_translators, pf_tokens,
                   pf_ret>>
    /\ ParseFrame

PfScanVolume == PfScan("volume")

PfScanChapterPrefix == PfScan("chapter")

PfScanNumber == PfScan("number")

PfScanTitle == PfScan("title")

\* The loop ends; the title is built and the Chapter returned.
PfReturn ==
    /\ pf_pc = "scan"
    /\ pf_scan.i >= Len(pf_tokens)
    /\ pf_ret' = [path |-> pf_filename, volume |-> pf_scan.volume,
                  chapter |-> pf_scan.chapter,
                  title |-> TitleOf(pf_scan.leftovers),
                  translators |-> pf_translators]
    /\ pf_pc' = "returned"
    /\ UNCHANGED <<pf_filename, pf_core, pf_translators, pf_tokens, pf_scan>>
    /\ ParseFrame

ParseNext ==
    \/ PfName
    \/ PfTranslators
    \/ PfLanguage
    \/ PfTokenize
    \/ PfScanVolume
    \/ PfScanChapterPrefix
    \/ PfScanNumber
    \/ PfScanTitle
    \/ PfReturn

SpecParse == ParseInit /\ [][ParseNext]_vars

\* parse_filename is straight-line code and one loop: a call that has begun
\* keeps running.
\* (The calls on the composed names and on OtherNames; the
\* names of the unit tests are under SpecParse.)
ParseLiveInit == ParseInit /\ pf_filename \in ComposedNames \cup OtherNames

SpecParseLive == ParseLiveInit /\ [][ParseNext]_vars /\ WF_vars(ParseNext)

\* The two models of parse_filename agree.
ParseMatchesParseFilename ==
    pf_pc = "returned" => pf_ret = ParseFilename(pf_filename, pf_filename)

\* The two models of modify_zip agree: every call of SpecRewrite ends in one
\* of the outcomes ModifyZipOutcomes gives for the file it began with.
RewriteMatchesModifyZip ==
    pc = "done" =>
        [result |-> result, file |-> file]
            \in ModifyZipOutcomes(file0, cand, updater)

(***************************************************************************)
(* ====================== The claims about the codec ===================== *)
(***************************************************************************)
\* The value the field-wise reading of decode gives field f of content c:
\* the value of its element when the element is present and its text
\* parses, the default of the field otherwise.
FieldWiseValue(c, f) ==
    IF c.kind = "xml" /\ Tag(f) \in DOMAIN c.doc
          /\ IsSome(FieldValue(f, c.doc[Tag(f)]))
    THEN Unwrap(FieldValue(f, c.doc[Tag(f)]))
    ELSE DefaultComicInfo[f]

\* C9: round trip of the codec: for every record r, of every manga flag and
\* every age rating, decode(encode(r)) equals r in every field (an absent
\* optional field decodes back to absent).
C9_RoundTrip ==
    (cpc = "decoded" /\ cmode = "roundtrip") => cout = crec

\* C10: decode is total and field-wise: every field whose element is absent
\* or does not parse gets its default, and every other field keeps the value
\* the document gives it.
C10_DecodeFieldWise ==
    (cpc = "decoded" /\ cmode = "decode") =>
        \A f \in Fields : cout[f] = FieldWiseValue(cdoc, f)

(***************************************************************************)
(* ==================== The claims about the rewriter ==================== *)
(***************************************************************************)
\* The call of modify_zip has returned Ok(()).
RewriteOk == pc = "done" /\ result = "ok"

\* The call of modify_zip has returned an error.
RewriteErr == pc = "done" /\ result \notin {"ok", "none"}

IsOther(e) == e.name # ComicInfoName

\* The entries of l other than the root ComicInfo.xml, in order.
Others(l) == SelectSeq(l, IsOther)

\* The number of root ComicInfo.xml entries of l.
ComicInfoCount(l) == Cardinality({k \in DOMAIN l : l[k].name = ComicInfoName})

\* The unix permission bits (mode & 0o777) of an entry, None when the entry
\* carries no unix mode.
PermBits(e) == IF IsSome(e.mode) THEN Some(Unwrap(e.mode) % 512) ELSE None

\* The whole new archive is built: every entry of the source is handled and
\* the output holds its ComicInfo.xml.
ArchiveBuilt ==
    /\ pc = "write"
    /\ idx = Len(zip) + 1
    /\ Len(out) >= Len(zip)
    /\ ComicInfoCount(out) = 1

\* C1: in modify_zip the file is written at most once, and only after every
\* entry is copied or regenerated and the archive finalised; when reading
\* the file, parsing the archive, copying an entry or encoding the record
\* fails, the call returns that error and no write to the file has happened.
C1_WriteOnceAfterBuild ==
    /\ [](/\ nwrites <= 1
          /\ (pc # "done" => (nwrites = 0 /\ file = file0))
          /\ (result \in {"read", "parse", "entry", "encode"} =>
                (pc = "done" /\ nwrites = 0 /\ file = file0)))
    /\ [][(file' # file \/ nwrites' > nwrites) => ArchiveBuilt]_vars

\* A call that failed on an entry of a two-entry archive.
C1_Witness ==
    /\ pc = "done"
    /\ result = "entry"
    /\ file.kind = "zip"
    /\ Len(file.entries) = 2
    /\ nwrites = 0

\* C2: whenever modify_zip returns an error, a failure of the final write
\* included, the file holds exactly the bytes it held before the call.
C2_ErrorLeavesFileIntact == RewriteErr => file = file0

\* What C3 compares of an entry, the permission bits as the claim states
\* them (an entry without a unix mode has none).
EntryAttrs(e) ==
    [name |-> e.name, content |-> e.content, method |-> e.method,
     perm |-> PermBits(e)]

\* The same, where an entry without a unix mode counts with the default
\* permissions the writer gives it.
EntryAttrsDefaulted(e) ==
    [name |-> e.name, content |-> e.content, method |-> e.method,
     perm |-> IF IsSome(e.mode) THEN PermBits(e) ELSE Some(DefaultPermissions)]

AttrsOf(l) == [k \in DOMAIN l |-> EntryAttrs(l[k])]

AttrsDefaultedOf(l) == [k \in DOMAIN l |-> EntryAttrsDefaulted(l[k])]

C4_ExactlyOneComicInfo ==
    RewriteOk =>
        LET old == file0.entries
            new == file.entries
        IN  /\ ComicInfoCount(new) = 1
            /\ IF ComicInfoCount(old) = 0
               THEN /\ Len(new) = Len(old) + 1
                    /\ new[Len(new)].name = ComicInfoName
                    /\ new[Len(new)].content
                          = EncodedRecord(DefaultComicInfo, cand, updater)
                    /\ \A k \in DOMAIN old : new[k].name = old[k].name
               ELSE /\ Len(new) = Len(old)
                    /\ \A k \in DOMAIN old : new[k].name = old[k].name

\* A successful rewrite, with a policy other than ReplaceAll, of an archive
\* that had entries but no ComicInfo.xml.
C4_Witness ==
    /\ RewriteOk
    /\ ComicInfoCount(file0.entries) = 0
    /\ Len(file0.entries) = 2
    /\ updater = "volume"

(***************************************************************************)
(* ===================== The claims about the batches ==================== *)
(***************************************************************************)
BatchReturned == bpc = "returned"

\* The targets whose task is spawned and has not ended.
Running == {t \in Targets : tstate[t] = "running"}

\* The outcomes the rewrite of target t may have had, given the file it
\* began with: those of modify_zip, or an abnormal end of the task.
TargetOutcomes(t) ==
    ModifyZipOutcomes(bfile0[t], BatchInfo(bop, chapters[t], binfo),
                      BatchUpdater(bop))
        \cup {[result |-> "join", file |-> bfile0[t]]}

\* C5: in every batch operation the rewrite of every target has finished,
\* successfully or not, before the call returns; the failure of one target
\* neither prevents nor cancels the rewrite of another, and the targets that
\* succeeded stay rewritten.
C5_EveryTargetFinishes ==
    BatchReturned =>
        \A t \in Targets :
            /\ tstate[t] = "collected"
            /\ [result |-> tres[t], file |-> bfile[t]] \in TargetOutcomes(t)
            /\ tres[t] = "ok" =>
                  bfile[t] = ZipFile(ModifyZipEntries(
                                bfile0[t].entries,
                                BatchInfo(bop, chapters[t], binfo),
                                BatchUpdater(bop)))
            /\ tres[t] \in {"read", "parse", "entry"} =>
                  (bfile0[t].kind # "zip" \/ FirstFailing(bfile0[t].entries) # 0)

\* A batch of three returned; the task that ended first had failed, and a
\* target whose task ended later is rewritten.
C5_Witness ==
    /\ BatchReturned
    /\ Len(chapters) = 3
    /\ tres[order[1]] = "read"
    /\ \E k \in 2..3 : tres[order[k]] = "ok" /\ bfile[order[k]] # bfile0[order[k]]

\* C6: a batch call returns success exactly when the rewrite of every target
\* succeeded; otherwise it returns the error of the failed target that
\* finished first in completion order.
C6_FirstErrorReturned ==
    BatchReturned =>
        /\ bret.kind \in {"ok", "err"}
        /\ (bret.kind = "ok") <=> (\A t \in Targets : tres[t] = "ok")
        /\ bret.kind = "err" =>
              \E k \in 1..Len(order) :
                  /\ tres[order[k]] # "ok"
                  /\ \A j \in 1..(k - 1) : tres[order[j]] = "ok"
                  /\ bret = ReturnErr(tres[order[k]], order[k])

\* A batch returned the error of a target although a target submitted
\* before it failed as well (it finished later).
C6_Witness ==
    /\ BatchReturned
    /\ bret.kind = "err"
    /\ \E u \in Targets : u < bret.target /\ tres[u] # "ok"

\* C7: at every moment at most limit rewrites of the batch are started and
\* not finished, also with more targets than the limit; a rewrite is started
\* only when fewer than limit are in flight.
C7_BoundedConcurrency ==
    /\ [](Cardinality(Running) <= limit)
    /\ [][\A t \in Targets :
            (tstate[t] = "pending" /\ tstate'[t] = "running") =>
                Cardinality(Running) < limit]_vars

\* More targets than the limit: limit rewrites run and a target waits.
C7_Witness ==
    /\ limit = 2
    /\ Len(chapters) > limit
    /\ Cardinality(Running) = limit
    /\ \E t \in Targets : tstate[t] = "pending"

\* C8: every batch call sends exactly one final summary message, after all
\* targets have finished, also when one or more targets failed.
C8_SummaryAlwaysSent ==
    BatchReturned =>
        /\ Cardinality({k \in DOMAIN sent : sent[k].kind = "summary"}) = 1
        /\ sent[Len(sent)] = SummaryMessage(Len(chapters))

(***************************************************************************)
(* ============== The claims about the existing metadata entry =========== *)
(***************************************************************************)
\* C11: the content of an existing ComicInfo.xml entry never makes the
\* rewrite (or get_comic_from_zip) fail: whatever bytes it holds, the
\* existing record is taken to be the default record; a call that fails on
\* an entry fails on an entry other than ComicInfo.xml, and the read
\* operation succeeds on every archive that has the entry.
C11_ContentNeverFails ==
    /\ (pc = "done" /\ result = "entry") =>
          file0.entries[FirstFailing(file0.entries)].name # ComicInfoName
    /\ (pc = "done" /\ file0.kind = "zip") =>
          GetComicFromZip(file0).result = "ok"

\* C12: encode writes the age rating Mature17Plus as "Mature 17+" and
\* AdultsOnly18Plus as "Adults Only 18+", the texts decode recognises for
\* these variants, and writes the language code under the tag LanguageISO;
\* every element it writes carries the tag of a field.
C12_EncodeTexts ==
    cpc = "encoded" =>
        /\ "AgeRating" \in DOMAIN cdoc.doc
        /\ crec.age_rating = "Mature17Plus" =>
              cdoc.doc["AgeRating"] = "Mature 17+"
        /\ crec.age_rating = "AdultsOnly18Plus" =>
              cdoc.doc["AgeRating"] = "Adults Only 18+"
        /\ DeserializeAgeRating(cdoc.doc["AgeRating"]) = crec.age_rating
        /\ IsSome(crec.language_iso) =>
              /\ "LanguageISO" \in DOMAIN cdoc.doc
              /\ cdoc.doc["LanguageISO"] = Unwrap(crec.language_iso)
        /\ DOMAIN cdoc.doc \subseteq KnownTags

(***************************************************************************)
(* ==================== The claims about the merge policies ============== *)
(***************************************************************************)
\* The fields the shared update is said to take from the candidate.
SharedByClaim ==
    {"series", "summary", "writer", "penciller", "publisher", "genre",
     "tags", "web", "language_iso", "manga", "age_rating", "count"}

\* The fields it is said to keep.
KeptByClaim ==
    {"title", "number", "volume", "year", "month", "day", "translator",
     "page_count"}

\* C13: MergeShared (save_series_info): the result equals the candidate in
\* series, summary, writer, penciller, publisher, genre, tags, web,
\* language, manga flag, age rating and total count, and equals the
\* existing record in title, number, volume, year, month, day, translator
\* and page count.
C13_MergeShared ==
    (mpc # "input" /\ mupdater = "update_shared") =>
        /\ SharedByClaim \cup KeptByClaim = Fields
        /\ \A f \in SharedByClaim : merged[f] = mnew[f]
        /\ \A f \in KeptByClaim : merged[f] = mold[f]

\* The shared update of a stored record that differs from the candidate in
\* every field, with a candidate whose optional fields are present.
C13_Witness ==
    /\ mpc = "merged"
    /\ mupdater = "update_shared"
    /\ mold = OldRecord
    /\ \A f \in Fields : mnew[f] # mold[f]
    /\ merged # mold
    /\ merged # mnew

\* C14: DeriveFromFilename: the result equals the candidate in title,
\* translator, number and volume, also when the candidate's value is absent
\* or empty (which erases the existing value), and equals the existing
\* record in every other field.
C14_DeriveFromFilename ==
    (mpc # "input" /\ mupdater = "derive") =>
        /\ \A f \in {"title", "translator", "number", "volume"} :
              merged[f] = mnew[f]
        /\ \A f \in Fields \ {"title", "translator", "number", "volume"} :
              merged[f] = mold[f]

\* A candidate with an empty title and no translator, number or volume
\* erases the four values of the stored record.
C14_Witness ==
    /\ mpc = "merged"
    /\ mupdater = "derive"
    /\ mold = OldRecord
    /\ mnew.title = ""
    /\ mnew.translator = None /\ mnew.number = None /\ mnew.volume = None
    /\ merged.title = "" /\ merged.translator = None
    /\ merged.number = None /\ merged.volume = None
    /\ merged.series = "S0"

StoredContent(f) ==
    f.entries[CHOOSE k \in DOMAIN f.entries :
                 f.entries[k].name = ComicInfoName].content

\* C16: ReplaceAll (save_chapter_info): the result is the candidate, so
\* after a successful save the stored record is the encoded candidate, and
\* does not depend on what the previous metadata entry held or on whether
\* there was one.
C16_ReplaceAll ==
    /\ \A old \in MergeExisting \cup {Existing1}, new \in Candidates :
          ApplyUpdater("replace_all", old, new) = new
    /\ (pc = "done" /\ result = "ok" /\ updater = "replace_all") =>
          StoredContent(file) = AddXmlComment(XmlContent(0, ToDoc(cand)))

\* A successful save over an archive that held another record.
C16_Witness ==
    /\ pc = "done" /\ result = "ok" /\ updater = "replace_all"
    /\ \E k \in DOMAIN file0.entries :
          /\ file0.entries[k].name = ComicInfoName
          /\ file0.entries[k].content = XmlContent(0, ToDoc(Existing1))
    /\ StoredContent(file) # StoredContent(file0)

\* C15: VolumeOnly end to end: if the metadata entry of an archive reads
\* back as record E, then after a successful rewrite with the volume policy
\* and candidate C it reads back as E with the volume of C, for every E
\* (every age rating and manga flag) and after repeated applications.
C15_VolumeOnlyEndToEnd ==
    (/\ pc = "done" /\ result = "ok" /\ updater = "volume"
     /\ GetComicFromZip(file0).result = "ok") =>
        GetComicFromZip(file) =
            [result |-> "ok",
             info |-> Some(TakeFields(Unwrap(GetComicFromZip(file0).info),
                                      cand, {"volume"}))]

(***************************************************************************)
(* ==================== The claims about parse_filename ================== *)
(***************************************************************************)
\* C18: parse_filename is total: for every file name (brackets,
\* parentheses, separators, prefixes and digits in any mix, empty and
\* unbalanced ones included) it ends and returns a descriptor; no slice and
\* no index leaves its text or the token list, and the token index grows
\* in every iteration of the scan, also when a following token is consumed.
C18_ParseFilenameTotal ==
    /\ <>(pf_pc = "returned")
    /\ [](pf_scan.i <= Len(pf_tokens))
    /\ [](pf_pc = "translators" /\ HasGroup(pf_core, "[", "]") =>
              Unwrap(RFind(pf_core, "[")) + 1 <= Unwrap(RFind(pf_core, "]")))
    /\ [](pf_pc = "language" /\ HasGroup(pf_core, "(", ")") =>
              Unwrap(RFind(pf_core, "(")) + 1 <= Unwrap(RFind(pf_core, ")")))
    /\ [][(pf_pc = "scan" /\ pf_pc' = "scan") => pf_scan'.i > pf_scan.i]_vars

\* The scan of "Vol 1" has taken the volume from the following token and
\* has passed both tokens in one iteration.
C18_Witness ==
    /\ pf_pc = "scan"
    /\ pf_tokens = <<<<"V", "o", "l">>, <<"1">>>>
    /\ pf_scan.i = 2
    /\ pf_scan.volume = Some(1)

\* C19: for every file the directory scan accepts as a chapter (extension
\* "cbz", letter case ignored) parse_filename removes exactly that one
\* trailing extension before parsing, and nothing else, so the extension
\* never appears in the title.
C19_ExtensionStripped ==
    IsCbz(pf_filename) =>
        /\ pf_pc = "translators" =>
              pf_core = SubSeq(pf_filename, 1, Len(pf_filename) - 4)
        /\ (pf_pc = "returned" /\ IsSome(pf_ret.title)) =>
              ~EndsWith(ToLowercase(Unwrap(pf_ret.title)),
                        <<".", "c", "b", "z">>)

\* C20: worst case of parse_filename: for a file name in which no volume,
\* no chapter number, no translator group and no language tag is
\* recognised, the descriptor has no volume, no chapter, no translators and
\* the file name without its extension as title.
C20_WorstCaseTitle ==
    (/\ pf_pc = "returned"
     /\ pf_ret.volume = None
     /\ pf_ret.chapter = None
     /\ ~HasGroup(StripExtension(pf_filename), "[", "]")
     /\ ~HasLanguageTag(StripExtension(pf_filename))) =>
        /\ pf_ret.translators = << >>
        /\ pf_ret.title = Some(StripExtension(pf_filename))

(***************************************************************************)
(* The chapter list of one series folder: the scan at start-up             *)
(* (get_series_list, for that folder), the r key (handle_refresh), and the *)
(* files that come and go in between.                                      *)
(***************************************************************************)
ListInit ==
    /\ CodecOff
    /\ RewriteOff
    /\ BatchOff
    /\ MergeOff
    /\ ParseOff
    /\ UiOff
    /\ ImOff
    /\ ls_pc = "start"
    /\ ls_dir \in Folders
    /\ ls_chapters = << >>
    /\ ls_refreshes = 0
    /\ ls_status = ""

\* get_series_list: let mut chapters = get_cbz_list(entry.path())?;
\* chapters.sort(); .. chapters: ChapterList::from_iter(chapters)
GetSeriesList ==
    /\ ls_pc = "start"
    /\ ls_chapters' \in Sorted(GetCbzList(ls_dir))
    /\ ls_pc' = "ui"
    /\ UNCHANGED <<ls_dir, ls_refreshes, ls_status>>
    /\ ListFrame

\* get_series_list: read_dir or metadata fails, and ? returns the error.
GetSeriesListFails ==
    /\ ls_pc = "start"
    /\ ls_pc' = "failed"
    /\ UNCHANGED <<ls_dir, ls_chapters, ls_refreshes, ls_status>>
    /\ ListFrame

\* get_series_list: chapters.sort() panics.
GetSeriesListPanics ==
    /\ ls_pc = "start"
    /\ SortMayPanic(GetCbzList(ls_dir))
    /\ ls_pc' = "panicked"
    /\ UNCHANGED <<ls_dir, ls_chapters, ls_refreshes, ls_status>>
    /\ ListFrame

\* handle_refresh: new_chapters.sort(); series.chapters = ..; send(..)
HandleRefresh ==
    /\ ls_pc = "ui"
    /\ ls_refreshes < MaxRefreshes
    /\ ls_refreshes' = ls_refreshes + 1
    /\ ls_chapters' \in Sorted(GetCbzList(ls_dir))
    /\ ls_status' = "Refreshed chapters list in series"
    /\ UNCHANGED <<ls_pc, ls_dir>>
    /\ ListFrame

\* handle_refresh: get_cbz_list fails; the error is logged and the list
\* stays.
HandleRefreshFails ==
    /\ ls_pc = "ui"
    /\ ls_refreshes < MaxRefreshes
    /\ ls_refreshes' = ls_refreshes + 1
    /\ UNCHANGED <<ls_pc, ls_dir, ls_chapters, ls_status>>
    /\ ListFrame

\* handle_refresh: new_chapters.sort() panics.
HandleRefreshPanics ==
    /\ ls_pc = "ui"
    /\ ls_refreshes < MaxRefreshes
    /\ SortMayPanic(GetCbzList(ls_dir))
    /\ ls_refreshes' = ls_refreshes + 1
    /\ ls_pc' = "panicked"
    /\ UNCHANGED <<ls_dir, ls_chapters, ls_status>>
    /\ ListFrame

\* A file appears in the folder while the program runs.
FileCreated ==
    /\ ls_pc = "ui"
    /\ \E n \in FolderNames \ ls_dir :
          /\ Cardinality(ls_dir) < MaxDir
          /\ ls_dir' = ls_dir \cup {n}
    /\ UNCHANGED <<ls_pc, ls_chapters, ls_refreshes, ls_status>>
    /\ ListFrame

\* A file of the folder is deleted while the program runs.
FileDeleted ==
    /\ ls_pc = "ui"
    /\ \E n \in ls_dir : ls_dir' = ls_dir \ {n}
    /\ UNCHANGED <<ls_pc, ls_chapters, ls_refreshes, ls_status>>
    /\ ListFrame

ListNext ==
    \/ GetSeriesList
    \/ GetSeriesListFails
    \/ GetSeriesListPanics
    \/ HandleRefresh
    \/ HandleRefreshFails
    \/ HandleRefreshPanics
    \/ FileCreated
    \/ FileDeleted

SpecList == ListInit /\ [][ListNext]_vars

(***************************************************************************)
(* ============ The claims about the token scan of parse_filename ======== *)
(***************************************************************************)
\* The scan is at a token.
Scanning == pf_pc = "scan" /\ pf_scan.i < Len(pf_tokens)

\* The token it is at.
ScannedToken == pf_tokens[pf_scan.i + 1]

\* One iteration of the scan.
ScanIteration == Scanning /\ pf_scan' # pf_scan

\* The iteration leaves the token out of the title / appends it / passes
\* one token / passes two.
TokenLeftOut == pf_scan'.leftovers = pf_scan.leftovers

TokenToTitle == pf_scan'.leftovers = Append(pf_scan.leftovers, ScannedToken)

PassesOne == pf_scan'.i = pf_scan.i + 1

PassesTwo == pf_scan'.i = pf_scan.i + 2

\* A token that looks like a chapter: a prefix token or a number.
ChapterLooking(tok) == IsChapterPrefix(tok) \/ IsSome(ParseFloat(tok))

\* What parse_filename returns is what the scan has gathered.
ReturnsTheScan ==
    pf_pc = "returned" =>
        /\ pf_ret.volume = pf_scan.volume
        /\ pf_ret.chapter = pf_scan.chapter
        /\ pf_ret.title = TitleOf(pf_scan.leftovers)

FindsVolume(tokens, i) ==
    \/ IsSome(ParseU32(SelectSeq(tokens[i + 1], LAMBDA c : c \in AsciiDigits)))
    \/ i + 2 <= Len(tokens) /\ IsSome(ParseU32(tokens[i + 2]))

\* C22: title composition: the only tokens missing from the title are the
\* volume tokens that set the volume and the chapter-prefix tokens that set
\* the chapter number, each with the following number it consumed; every
\* other token, a word that merely begins with vol or ch included, is in
\* the title once, in the original order, joined by single spaces, and the
\* title is absent exactly when there is no such token.
C22_TitleComposition ==
    /\ []ReturnsTheScan
    /\ [][ScanIteration =>
            \/ TokenToTitle /\ PassesOne
            \/ /\ TokenLeftOut
               /\ IsVolumeToken(ScannedToken)
               /\ FindsVolume(pf_tokens, pf_scan.i)
               /\ IsSome(pf_scan'.volume)
            \/ /\ TokenLeftOut
               /\ IsChapterPrefix(ScannedToken)
               /\ pf_scan.chapter = None
               /\ IsSome(pf_scan'.chapter)]_vars

\* C23: bare-number fallback: a token that parses as a number and is not
\* handled as a volume or chapter-prefix token is always appended to the
\* title, and it becomes the chapter number exactly when no chapter number
\* was set before it.
C23_BareNumber ==
    [][(/\ ScanIteration
        /\ IsSome(ParseFloat(ScannedToken))
        /\ ~IsVolumeToken(ScannedToken)
        /\ ~(pf_scan.chapter = None /\ IsChapterPrefix(ScannedToken))) =>
            /\ TokenToTitle
            /\ PassesOne
            /\ pf_scan'.volume = pf_scan.volume
            /\ pf_scan'.chapter =
                  IF pf_scan.chapter = None THEN ParseFloat(ScannedToken)
                  ELSE pf_scan.chapter]_vars

\* "Night 44": the number is the chapter and is in the title.
C23_Witness ==
    /\ pf_pc = "returned"
    /\ pf_ret.chapter = Some(Float(44, 0))
    /\ pf_ret.title = Some(<<"N", "i", "g", "h", "t", " ", "4", "4">>)

\* The string without the group between its last open and its last close.
WithoutGroup(core, open, close) ==
    SubSeq(core, 1, Unwrap(RFind(core, open)) - 1)
        \o SubSeq(core, Unwrap(RFind(core, close)) + 1, Len(core))

\* The step "Extract translators" / "Extract language tag" of one call.
TranslatorsStep == pf_pc = "translators" /\ pf_pc' = "language"

LanguageStep == pf_pc = "language" /\ pf_pc' = "tokenize"

\* C24: translator extraction: when the last [ of the name precedes its
\* last ], the translators are the comma-separated pieces between them,
\* trimmed, without the empty ones, in order, and that group and only that
\* group leaves the working string; with no such pair the list is empty and
\* the working string is untouched.
C24_TranslatorGroupRemoved ==
    [][TranslatorsStep =>
        IF HasGroup(pf_core, "[", "]")
        THEN /\ pf_translators' = TranslatorsOf(Inside(pf_core, "[", "]"))
             /\ pf_core' = Trim(WithoutGroup(pf_core, "[", "]"))
        ELSE /\ pf_translators' = << >>
             /\ pf_core' = pf_core]_vars

\* C25: language tag: when the last ( of the working string precedes its
\* last ) and 2 or 3 characters stand between them, that group and only
\* that group is removed; a group of any other length stays in place.
C25_LanguageTagRemoved ==
    [][LanguageStep =>
        IF HasGroup(pf_core, "(", ")")
              /\ Len(Inside(pf_core, "(", ")")) \in 2..3
        THEN pf_core' = Trim(WithoutGroup(pf_core, "(", ")"))
        ELSE pf_core' = pf_core]_vars

\* The tokenizer whose bracket depth stops at zero.
TokenizeCharFloored(st, c) ==
    IF c = "]" /\ st.bracket_depth = 0
    THEN [st EXCEPT !.buf = Append(@, c)]
    ELSE TokenizeChar(st, c)

RECURSIVE TokenizeLoopFloored(_, _)
TokenizeLoopFloored(st, s) ==
    IF Len(s) = 0 THEN st
    ELSE IF Len(s) = 1 THEN TokenizeCharFloored(st, s[1])
    ELSE LET half == Len(s) \div 2
         IN  CHOOSE end \in
                 {TokenizeLoopFloored(mid, SubSeq(s, half + 1, Len(s))) :
                      mid \in {TokenizeLoopFloored(st, SubSeq(s, 1, half))}} :
                 TRUE

TokenizeFloored(s) ==
    LET st == TokenizeLoopFloored([tokens |-> << >>, buf |-> << >>,
                                   bracket_depth |-> 0], s)
    IN  IF st.buf # << >> THEN Append(st.tokens, st.buf) ELSE st.tokens

\* bracket_depth after the first k characters of s.
DepthAfter(s, k) ==
    TokenizeLoop([tokens |-> << >>, buf |-> << >>, bracket_depth |-> 0],
                 SubSeq(s, 1, k)).bracket_depth

\* C26: tokenize_preserving_brackets splits at every space, tab, newline,
\* - and : outside an unclosed [ ] pair and keeps them inside one: the
\* bracket depth is never negative, no token is empty, and the tokens are
\* those of the split at the separators outside brackets, in order.
C26_TokenizerSplitsOutsideBrackets ==
    pf_pc \in {"scan", "returned"} =>
        /\ \A k \in 0..Len(pf_core) : DepthAfter(pf_core, k) >= 0
        /\ \A k \in DOMAIN pf_tokens : pf_tokens[k] # << >>
        /\ pf_tokens = TokenizeFloored(pf_core)

\* C28: volume detection: a token that begins with vol (any letter case)
\* and holds no bracket sets the volume to the number its digits form;
\* when it has no usable digits and the next token is an unsigned integer,
\* the volume is that integer and the next token is passed over, so it is
\* neither in the title nor the chapter number; otherwise the volume stays
\* as it was.
C28_VolumeDetection ==
    [][(ScanIteration /\ IsVolumeToken(ScannedToken)) =>
        LET own == ParseU32(SelectSeq(ScannedToken,
                                      LAMBDA c : c \in AsciiDigits))
            next == NextToken(pf_tokens, pf_scan.i)
        IN  /\ TokenLeftOut
            /\ pf_scan'.chapter = pf_scan.chapter
            /\ IF IsSome(own)
               THEN pf_scan'.volume = own /\ PassesOne
               ELSE IF IsSome(next) /\ IsSome(ParseU32(Unwrap(next)))
               THEN pf_scan'.volume = ParseU32(Unwrap(next)) /\ PassesTwo
               ELSE pf_scan'.volume = pf_scan.volume /\ PassesOne]_vars

\* "Volume 12 - Chapter 4.5 - Final Fight": the 12 that follows Volume is
\* the volume and is in neither the title nor the chapter number.
C28_Witness ==
    /\ pf_pc = "returned"
    /\ Len(pf_tokens) >= 2
    /\ pf_tokens[1] = <<"V", "o", "l", "u", "m", "e">>
    /\ pf_tokens[2] = <<"1", "2">>
    /\ pf_ret.volume = Some(12)
    /\ pf_ret.chapter = Some(Float(45, 1))
    /\ pf_ret.title = Some(<<"F", "i", "n", "a", "l", " ", "F", "i", "g", "h", "t">>)

\* The prefixes of the chapter branch, with and without the dot.
DottedPrefixes == ChapterPrefixes \cup {p \o <<".">> : p \in ChapterPrefixes}

\* What follows the prefix in a chapter-prefix token: the token without
\* its longest prefix, or without its #.
AfterPrefix(tok) ==
    IF Head(tok) = "#" THEN Tail(tok)
    ELSE LET fits == {p \in DottedPrefixes : StartsWith(ToLowercase(tok), p)}
             longest == CHOOSE p \in fits : \A r \in fits : Len(r) <= Len(p)
         IN  SubSeq(tok, Len(longest) + 1, Len(tok))

\* C29: chapter-prefix handling while no chapter number is set: a numeric
\* remainder after the prefix becomes the chapter number; with no remainder
\* and a numeric next token, that token becomes the chapter number and is
\* passed over; in every other case the chapter number stays unset, the raw
\* token goes to the title and the next token is scanned normally.
C29_ChapterPrefix ==
    [][(/\ ScanIteration
        /\ ~IsVolumeToken(ScannedToken)
        /\ pf_scan.chapter = None
        /\ IsChapterPrefix(ScannedToken)) =>
        LET rest == AfterPrefix(ScannedToken)
            next == NextToken(pf_tokens, pf_scan.i)
        IN  /\ pf_scan'.volume = pf_scan.volume
            /\ IF IsSome(ParseFloat(rest))
               THEN /\ pf_scan'.chapter = ParseFloat(rest)
                    /\ TokenLeftOut /\ PassesOne
               ELSE IF rest = << >> /\ IsSome(next)
                          /\ IsSome(ParseFloat(Unwrap(next)))
               THEN /\ pf_scan'.chapter = ParseFloat(Unwrap(next))
                    /\ TokenLeftOut /\ PassesTwo
               ELSE /\ pf_scan'.chapter = None
                    /\ TokenToTitle /\ PassesOne]_vars

\* "Ch1a Ch2": the first token has a prefix and no number, so it goes to
\* the title, and the token after it sets the chapter number.
C29_Witness ==
    /\ pf_pc = "returned"
    /\ pf_tokens = <<<<"C", "h", "1", "a">>, <<"C", "h", "2">>>>
    /\ pf_ret.chapter = Some(Float(2, 0))
    /\ pf_ret.title = Some(<<"C", "h", "1", "a">>)

(***************************************************************************)
(* ================ The claim about the provenance comment =============== *)
(***************************************************************************)
\* The ComicInfo.xml entries of file f.
ComicInfoEntriesOf(f) ==
    {k \in DOMAIN f.entries : f.entries[k].name = ComicInfoName}

\* C30: after any number of successful rewrites of an archive its
\* ComicInfo.xml holds exactly one provenance comment, written ahead of the
\* document: the comment is added when the entry existed and when it was
\* synthesised, and repeated rewrites do not accumulate comments.
C30_OneProvenanceComment ==
    (pc = "done" /\ result = "ok") =>
        /\ Cardinality(ComicInfoEntriesOf(file)) = 1
        /\ StoredContent(file).kind = "xml"
        /\ StoredContent(file).comments = 1

\* The second successful rewrite in a row of an archive whose entry held a
\* comment before the first.
C30_Witness ==
    /\ pc = "done" /\ result = "ok" /\ calls = 2
    /\ file0.kind = "zip"
    /\ \E k \in ComicInfoEntriesOf(file0) :
          /\ file0.entries[k].content.kind = "xml"
          /\ file0.entries[k].content.comments = 1
    /\ StoredContent(file).comments = 1

(***************************************************************************)
(* ================= The claim about the order of chapters =============== *)
(***************************************************************************)
\* The chapters of the list.
Listed == {ls_chapters[k] : k \in DOMAIN ls_chapters}

\* C27: after every directory scan and every refresh the chapters of the
\* series are in ascending order of chapter number, equal numbers in
\* ascending order of path and a chapter without a number as number 0; and
\* the comparison used is a total order (antisymmetric, transitive) on the
\* descriptors of the series.
C27_ChaptersInOrder ==
    ls_pc = "ui" =>
        /\ \A i, j \in DOMAIN ls_chapters :
              i < j =>
                LET o == FloatPartialCmp(ChapterOrZero(ls_chapters[i]),
                                         ChapterOrZero(ls_chapters[j]))
                IN  /\ o # Some("Greater")
                    /\ o = Some("Equal") =>
                          PathCmp(ls_chapters[i].path,
                                  ls_chapters[j].path) = "Less"
        /\ TotalOrderOn(Listed)

(***************************************************************************)
(* ================== The claims about the status messages =============== *)
(***************************************************************************)
\* The "Processing t/n" messages sent so far for target t.
ProcessingSent(t) ==
    {k \in DOMAIN sent : sent[k].kind = "processing" /\ sent[k].i = t}

\* The summary has been sent.
SummarySent == \E k \in DOMAIN sent : sent[k].kind = "summary"

\* C31: progress ordering in a batch: for each target exactly one
\* "Processing i/N" message is sent, and it is sent before the rewrite of
\* the target starts; the summary is never sent while a rewrite of the
\* batch is still running; a status message that cannot be delivered (no
\* receiver) neither fails nor stops the batch.
C31_ProgressOrdering ==
    /\ \A t \in Targets :
          Cardinality(ProcessingSent(t)) =
              IF tstate[t] = "pending" THEN 0 ELSE 1
    /\ SummarySent =>
          (Running = {} /\ \A t \in Targets : tstate[t] = "collected")
    /\ BatchReturned =>
          /\ \A t \in Targets : tstate[t] = "collected"
          /\ (bret = ReturnOk) <=> (\A t \in Targets : tres[t] = "ok")
          /\ (bret = ReturnOk) <=> SummarySent

\* A batch of two targets or more that returned Ok although every send of
\* a status message, the summary included, returned Err.
C31_Witness ==
    /\ BatchReturned
    /\ bret = ReturnOk
    /\ Len(chapters) >= 2
    /\ SendResult(receivers) = "err"
    /\ Len(sent) = Len(chapters) + 1

(***************************************************************************)
(* ================ The claim about update_chapter_numbering ============= *)
(***************************************************************************)
\* The record the archive of target t reads back as, before the batch and
\* now.
ReadBefore(t) == Unwrap(GetComicFromZip(bfile0[t]).info)

ReadNow(t) == Unwrap(GetComicFromZip(bfile[t]).info)

\* The targets update_chapter_numbering has rewritten.
Renumbered ==
    {t \in Targets : bop = "update_chapter_numbering" /\ tres[t] = "ok"}

\* The record of a rewritten target holds the values of its own descriptor.
OwnDescriptorStored ==
    \A t \in Renumbered :
        /\ ReadNow(t).volume = chapters[t].volume
        /\ ReadNow(t).number = chapters[t].chapter
        /\ ReadNow(t).title =
              IF IsSome(chapters[t].title) THEN Unwrap(chapters[t].title)
              ELSE ""
        /\ ReadNow(t).translator =
              Some(JoinStrings(chapters[t].translators, ","))

\* C32: in update_chapter_numbering every target is rewritten with a
\* candidate built from its own descriptor, under any interleaving of the
\* tasks: after the batch the stored volume and number of each target are
\* its parsed volume and chapter number, its title is its parsed title
\* (empty when it has none), its translator is the comma-join of its parsed
\* translators, and all its other stored fields are unchanged.
C32_OwnDescriptor ==
    BatchReturned =>
        /\ OwnDescriptorStored
        /\ \A t \in Renumbered :
              \A f \in Fields \ DerivedFields : ReadNow(t)[f] = ReadBefore(t)[f]

\* C35: equality and ordering of chapter descriptors agree: for any two
\* descriptors a and b of a series, a == b holds exactly when the ordering
\* compares a and b as Equal.
C35_EqAgreesWithOrd ==
    ls_pc = "ui" =>
        \A a, b \in Listed : ChapterEq(a, b) <=> (ChapterCmp(a, b) = "Equal")

(***************************************************************************)
(* SpecImage: the image manager of the preview pane.  replace_images       *)
(* starts the decode of the pages of an archive, poll_image_updates takes  *)
(* its result, next and prev (the keys = + -) move the current page.       *)
(***************************************************************************)
\* The most pages an archive of the model holds.
MaxPages == 4

\* Where the model stops following an index that keeps growing.
MaxCurrent == 5

\* The two builds: overflow checks on (panic) and off (wrap around).
Builds == {"debug", "release"}

ImagesLoading == [state |-> "Loading"]

ImagesReady(n) == [state |-> "Ready", len |-> n]

\* images.len() - 1 on usize: below zero the debug build panics and the
\* release build wraps to usize::MAX, which every index is smaller than.
LenMinusOne(len, build) ==
    IF len >= 1 THEN [kind |-> "value", value |-> len - 1]
    ELSE IF build = "debug" THEN [kind |-> "panic"]
    ELSE [kind |-> "max"]

\* self.current < images.len() - 1
BelowLast(cur, last) ==
    CASE last.kind = "value" -> cur < last.value
      [] last.kind = "max" -> TRUE
      [] OTHER -> FALSE

SaturatingSub(a, b) == IF a >= b THEN a - b ELSE 0

ImageInit ==
    /\ CodecOff
    /\ RewriteOff
    /\ BatchOff
    /\ MergeOff
    /\ ParseOff
    /\ ListOff
    /\ UiOff
    /\ im_pc = "on"
    /\ im_build \in Builds
    /\ images = ImagesLoading
    /\ images_rx = None
    /\ current = 0

\* ImageManager::next
ImageNext ==
    /\ im_pc = "on"
    /\ current < MaxCurrent
    /\ IF images.state = "Ready"
       THEN LET last == LenMinusOne(images.len, im_build)
            IN  IF last.kind = "panic"
                THEN im_pc' = "panicked" /\ UNCHANGED current
                ELSE /\ current' = IF BelowLast(current, last)
                                   THEN current + 1 ELSE current
                     /\ UNCHANGED im_pc
       ELSE UNCHANGED <<im_pc, current>>
    /\ UNCHANGED <<im_build, images, images_rx>>
    /\ ImFrame

\* ImageManager::prev
ImagePrev ==
    /\ im_pc = "on"
    /\ current' = SaturatingSub(current, 1)
    /\ UNCHANGED <<im_pc, im_build, images, images_rx>>
    /\ ImFrame

\* ImageManager::replace_images with the pages of an archive: a new channel
\* (the task of an earlier call loses its receiver), and a task that decodes
\* the pages.
ReplaceImages ==
    /\ im_pc = "on"
    /\ \E k \in 0 .. MaxPages :
          images_rx' = Some([pages |-> k, i |-> 0, protocols |-> 0,
                             sent |-> FALSE])
    /\ images' = ImagesLoading
    /\ current' = 0
    /\ UNCHANGED <<im_pc, im_build>>
    /\ ImFrame

\* One iteration of the task's loop: the page decodes and its protocol is
\* pushed, or it does not and the page is left out.
DecodePage ==
    /\ im_pc = "on"
    /\ images_rx # None
    /\ LET task == Unwrap(images_rx)
       IN  /\ task.i < task.pages
           /\ \E decoded \in BOOLEAN :
                 images_rx' =
                     Some([task EXCEPT
                             !.i = @ + 1,
                             !.protocols = IF decoded THEN @ + 1 ELSE @])
    /\ UNCHANGED <<im_pc, im_build, images, current>>
    /\ ImFrame

\* The task's tx.send(protocols), after the loop.
DecodeEnds ==
    /\ im_pc = "on"
    /\ images_rx # None
    /\ LET task == Unwrap(images_rx)
       IN  /\ task.i = task.pages
           /\ ~task.sent
           /\ images_rx' = Some([task EXCEPT !.sent = TRUE])
    /\ UNCHANGED <<im_pc, im_build, images, current>>
    /\ ImFrame

\* ImageManager::poll_image_updates
PollImageUpdates ==
    /\ im_pc = "on"
    /\ IF images_rx # None /\ Unwrap(images_rx).sent
       THEN /\ images' = ImagesReady(Unwrap(images_rx).protocols)
            /\ images_rx' = None
       ELSE UNCHANGED <<images, images_rx>>
    /\ UNCHANGED <<im_pc, im_build, current>>
    /\ ImFrame

ImageNextStep ==
    \/ ImageNext
    \/ ImagePrev
    \/ ReplaceImages
    \/ DecodePage
    \/ DecodeEnds
    \/ PollImageUpdates

SpecImage == ImageInit /\ [][ImageNextStep]_vars

(***************************************************************************)
(* ============ The claims about the image manager ======================= *)
(***************************************************************************)
\* C40: the current page index stays in range after any sequence of next,
\* prev and replace_images: it is smaller than the number of loaded images,
\* or 0 when no image is loaded (a Ready state with zero images included),
\* and no index computation underflows.
C40_PageIndexInRange ==
    /\ im_pc # "panicked"
    /\ IF images.state = "Ready" /\ images.len > 0
       THEN current < images.len
       ELSE current = 0

(***************************************************************************)
(* SpecUi: the App.  One action per key handler and one for tick, each     *)
(* followed by the draw that begins the next turn of the run loop (the     *)
(* lists clamp their selection when they are rendered); and the steps of   *)
(* the background tasks: the load or lookup whose answer the form waits    *)
(* for, and the rewrites the save commands have spawned.  A series is      *)
(* named by its index, a chapter file by <<series, index>>.  A task whose  *)
(* receiver has been replaced can no longer be heard and is left out.      *)
(***************************************************************************)
\* The most chapters a series folder of the model holds.
MaxChapters == 2

\* The most rewrites of one file the model lets be in flight.
MaxInFlight == 2

\* The series folders of the model.
MaxSeries == 2

\* Every chapter file there may be.
ChapterFiles == (0 .. MaxSeries - 1) \X (0 .. MaxChapters - 1)

\* The chapter counts of the series of the libraries the App starts with.
Libraries == {<< >>, <<2>>, <<2, 0>>}

Tabs == <<"SeriesList", "ChaptersList", "Metadata">>

\* The place of a pane, counted from the left.
TabRank(tab) == CHOOSE k \in DOMAIN Tabs : Tabs[k] = tab

UnwrapOr(o, d) == IF o = None THEN d ELSE Unwrap(o)

\* An index that lies past the end of a list of len items, as usize::MAX
\* does: every such index is looked up and clamped alike.
PastTheEnd(len) == len

\* ListState::select_next, select_previous, select_first, select_last, and
\* select(Some(select_next_n(.., 10, len))), select(Some(select_previous_n(..,
\* 10, len))); "keep" is the closure that only reads selected().
SelectOp(kind, sel, len) ==
    CASE kind = "next" ->
           IF sel = None THEN Some(0) ELSE Some(Unwrap(sel) + 1)
      [] kind = "previous" ->
           IF sel = None THEN Some(PastTheEnd(len))
           ELSE Some(SaturatingSub(Unwrap(sel), 1))
      [] kind = "first" -> Some(0)
      [] kind = "last" -> Some(PastTheEnd(len))
      [] kind = "next_10" ->
           IF sel = None THEN Some(len + 1) ELSE Some(Unwrap(sel) + 10)
      [] kind = "previous_10" ->
           IF sel = None THEN Some(SaturatingSub(len, 1))
           ELSE Some(SaturatingSub(Unwrap(sel), 10))
      [] OTHER -> sel

\* What rendering a list of len items does to its selection.
ClampSelection(sel, len) ==
    IF len = 0 THEN None
    ELSE IF sel # None /\ Unwrap(sel) >= len THEN Some(len - 1)
    ELSE sel

\* render_series and render_chapters: the series list, and the chapter list
\* of the series it selects.
RenderSeries(ss, lens) == ClampSelection(ss, Len(lens))

RenderChapters(ss, cs, lens) ==
    LET cur == UnwrapOr(RenderSeries(ss, lens), 0)
    IN  IF cur < Len(lens)
        THEN [cs EXCEPT ![cur + 1] = ClampSelection(@, lens[cur + 1])]
        ELSE cs

ComicLoading == [state |-> "Loading"]

\* Ready(form): of is the chapter file the form was filled for, stale
\* whether the selection was changed while its task ran.
ComicReady(path, stale) == [state |-> "Ready", of |-> path, stale |-> stale]

\* A channel made by update_comic_info ("load") or handle_ctrl_u ("lookup")
\* and its task: "running", "sent" (the form is in the channel, the task has
\* ended) or "ended" (the task returned without sending).
Channel(kind, path) ==
    [kind |-> kind, path |-> path, task |-> "running", stale |-> FALSE]

\* The chapter the panes show as selected.
CurrentPath ==
    LET cur == UnwrapOr(series_state, 0)
    IN  IF cur < Len(chapters_len) /\ chapters_state[cur + 1] # None
        THEN Some(<<cur, Unwrap(chapters_state[cur + 1])>>)
        ELSE None

AppRunning == panicked = "none" /\ current_tab # "off"

UiInit ==
    /\ CodecOff
    /\ RewriteOff
    /\ BatchOff
    /\ MergeOff
    /\ ParseOff
    /\ ListOff
    /\ ImOff
    /\ current_tab = "SeriesList"
    /\ input_mode = "Normal"
    /\ chapters_len \in Libraries
    /\ series_state = RenderSeries(Some(0), chapters_len)
    /\ chapters_state =
           RenderChapters(Some(0), [k \in DOMAIN chapters_len |-> Some(0)],
                          chapters_len)
    /\ chapters_selected = [k \in DOMAIN chapters_len |-> {}]
    /\ comic = ComicLoading
    /\ comic_rx = None
    /\ pending_selection = None
    /\ rewritesInFlight = [path \in ChapterFiles |-> 0]
    /\ panicked = "none"

\* update_chapter_select(select), after the series selection has become ss
\* and the marks ms: the closure acts on the series ss points at, the form
\* goes to Loading and the path of that series' selected chapter, if there is
\* one, becomes the pending selection.
UpdateChapterSelect(ss, kind, ms) ==
    LET cur == UnwrapOr(ss, 0)
        inside == cur < Len(chapters_len)
        sel == IF inside
               THEN SelectOp(kind, chapters_state[cur + 1], chapters_len[cur + 1])
               ELSE None
        cs == IF inside THEN [chapters_state EXCEPT ![cur + 1] = sel]
              ELSE chapters_state
        current_chapter == UnwrapOr(sel, 0)
    IN  /\ comic' = ComicLoading
        /\ pending_selection' =
               IF inside /\ current_chapter < chapters_len[cur + 1]
               THEN Some(<<cur, current_chapter>>) ELSE None
        /\ comic_rx' = IF comic_rx = None THEN None
                       ELSE Some([Unwrap(comic_rx) EXCEPT !.stale = TRUE])
        /\ series_state' = RenderSeries(ss, chapters_len)
        /\ chapters_state' = RenderChapters(ss, cs, chapters_len)
        /\ chapters_selected' = ms
        /\ UNCHANGED <<current_tab, input_mode, chapters_len,
                       rewritesInFlight, panicked>>
        /\ UiFrame

\* select_next, select_previous, ... : on the series list the series
\* selection moves, on the chapter list the chapter selection.
Select(kind) ==
    /\ AppRunning
    /\ \/ /\ current_tab = "SeriesList"
          /\ UpdateChapterSelect(
                 SelectOp(kind, series_state, Len(chapters_len)), "keep",
                 chapters_selected)
       \/ /\ current_tab = "ChaptersList"
          /\ UpdateChapterSelect(series_state, kind, chapters_selected)

SelectNext == Select("next")

SelectPrevious == Select("previous")

SelectNext10 == Select("next_10")

SelectPrevious10 == Select("previous_10")

SelectFirst == Select("first")

SelectLast == Select("last")

UiKeepLists ==
    UNCHANGED <<series_state, chapters_len, chapters_state, chapters_selected>>

UiKeepForm == UNCHANGED <<comic, comic_rx, pending_selection>>

\* next_tab: the keys l and Enter on the two lists.
NextTab ==
    /\ AppRunning
    /\ current_tab # "Metadata"
    /\ current_tab' = CASE current_tab = "SeriesList" -> "ChaptersList"
                        [] current_tab = "ChaptersList" -> "Metadata"
    /\ UiKeepLists
    /\ UiKeepForm
    /\ UNCHANGED <<input_mode, rewritesInFlight, panicked>>
    /\ UiFrame

\* previous_tab: the key h on the two lists.
PreviousTab ==
    /\ AppRunning
    /\ current_tab # "Metadata"
    /\ current_tab' = CASE current_tab = "SeriesList" -> "ChaptersList"
                        [] current_tab = "ChaptersList" -> "SeriesList"
    /\ UiKeepLists
    /\ UiKeepForm
    /\ UNCHANGED <<input_mode, rewritesInFlight, panicked>>
    /\ UiFrame

\* The keys h and l on the form, in Normal mode: prev_side and next_side move
\* inside the form; the pane stays.
FormSide ==
    /\ AppRunning
    /\ current_tab = "Metadata"
    /\ input_mode = "Normal"
    /\ UiKeepLists
    /\ UiKeepForm
    /\ UNCHANGED <<current_tab, input_mode, rewritesInFlight, panicked>>
    /\ UiFrame

\* Enter on the form.
FormEnter ==
    /\ AppRunning
    /\ current_tab = "Metadata"
    /\ input_mode' = IF input_mode = "Normal" THEN "Editing" ELSE "Normal"
    /\ UiKeepLists
    /\ UiKeepForm
    /\ UNCHANGED <<current_tab, rewritesInFlight, panicked>>
    /\ UiFrame

\* Esc on the form.
FormEsc ==
    /\ AppRunning
    /\ current_tab = "Metadata"
    /\ IF input_mode = "Editing"
       THEN input_mode' = "Normal" /\ UNCHANGED current_tab
       ELSE current_tab' = "ChaptersList" /\ UNCHANGED input_mode
    /\ UiKeepLists
    /\ UiKeepForm
    /\ UNCHANGED <<rewritesInFlight, panicked>>
    /\ UiFrame

\* ChapterList::toggle_selected
ToggleSelected(marks, sel) ==
    IF sel = None THEN marks
    ELSE IF Unwrap(sel) \in marks THEN marks \ {Unwrap(sel)}
    ELSE marks \cup {Unwrap(sel)}

\* toggle_select: the space key on the chapter list.
ToggleSelect ==
    /\ AppRunning
    /\ current_tab = "ChaptersList"
    /\ LET cur == UnwrapOr(series_state, 0)
       IN  IF cur < Len(chapters_len)
           THEN UpdateChapterSelect(
                    series_state, "next",
                    [chapters_selected EXCEPT
                       ![cur + 1] = ToggleSelected(@, chapters_state[cur + 1])])
           ELSE /\ UiKeepLists
                /\ UiKeepForm
                /\ UNCHANGED <<current_tab, input_mode, rewritesInFlight,
                               panicked>>
                /\ UiFrame

\* The sequences without repetition of the members of S.
OrdersOf(S) ==
    {q \in [1 .. Cardinality(S) -> S] : \A i, j \in DOMAIN q : q[i] = q[j] => i = j}

\* get_chapters_in_series, variant: the marks are not looked at.
GetChaptersInSeriesAll(cur) == {[k \in 1 .. chapters_len[cur + 1] |-> k - 1]}

\* get_chapters_in_series for the series at cur: the indices of the chapters
\* it returns, in each order the iteration over a HashSet may give.
GetChaptersInSeries(cur) ==
    IF chapters_selected[cur + 1] = {}
    THEN {[k \in 1 .. chapters_len[cur + 1] |-> k - 1]}
    ELSE OrdersOf({i \in chapters_selected[cur + 1] : i < chapters_len[cur + 1]})

\* What a handler does after an index out of bounds: the panic ends the App.
Panics(handler) ==
    /\ panicked' = handler
    /\ UiKeepLists
    /\ UiKeepForm
    /\ UNCHANGED <<current_tab, input_mode, rewritesInFlight>>
    /\ UiFrame

\* A handler that returns at once because the form is not Ready.
NotReady ==
    /\ UiKeepLists
    /\ UiKeepForm
    /\ UNCHANGED <<current_tab, input_mode, rewritesInFlight, panicked>>
    /\ UiFrame

\* tokio::spawn of a batch over the chapters at the indices targets of the
\* series cur: one rewrite for each place of the Vec.
Spawn(cur, targets) ==
    /\ rewritesInFlight' =
           [path \in ChapterFiles |->
              rewritesInFlight[path]
                  + Cardinality({k \in DOMAIN targets : path = <<cur, targets[k]>>})]
    /\ \A path \in ChapterFiles : rewritesInFlight'[path] <= MaxInFlight
    /\ UiKeepLists
    /\ UiKeepForm
    /\ UNCHANGED <<current_tab, input_mode, panicked>>
    /\ UiFrame

\* Ctrl+D, Ctrl+F, Ctrl+G on the form: a batch over get_chapters_in_series().
SaveSeries(handler) ==
    /\ AppRunning
    /\ current_tab = "Metadata"
    /\ LET cur == UnwrapOr(series_state, 0)
       IN  IF comic.state # "Ready" THEN NotReady
           ELSE IF cur >= Len(chapters_len) THEN Panics(handler)
           ELSE \E targets \in GetChaptersInSeries(cur) : Spawn(cur, targets)

\* handle_ctrl_d: save_series_info
HandleCtrlD == SaveSeries("handle_ctrl_d")

\* handle_ctrl_f: update_chapter_numbering
HandleCtrlF == SaveSeries("handle_ctrl_f")

\* handle_ctrl_g: update_volume_numbering
HandleCtrlG == SaveSeries("handle_ctrl_g")

\* Whether get_current_chapter indexes inside both lists.
CurrentChapterInside ==
    LET cur == UnwrapOr(series_state, 0)
    IN  /\ cur < Len(chapters_len)
        /\ UnwrapOr(chapters_state[cur + 1], 0) < chapters_len[cur + 1]

\* get_current_chapter().path, when it indexes inside.
CurrentChapterPath ==
    LET cur == UnwrapOr(series_state, 0)
    IN  <<cur, UnwrapOr(chapters_state[cur + 1], 0)>>

\* handle_ctrl_s: save_chapter_info for get_current_chapter().
HandleCtrlS ==
    /\ AppRunning
    /\ current_tab = "Metadata"
    /\ IF comic.state # "Ready" THEN NotReady
       ELSE IF ~CurrentChapterInside THEN Panics("handle_ctrl_s")
       ELSE Spawn(CurrentChapterPath[1], <<CurrentChapterPath[2]>>)

\* The blocking task of one rewrite ends.
RewriteEnds ==
    /\ current_tab # "off"
    /\ \E path \in ChapterFiles :
          /\ rewritesInFlight[path] > 0
          /\ rewritesInFlight' = [rewritesInFlight EXCEPT ![path] = @ - 1]
    /\ UiKeepLists
    /\ UiKeepForm
    /\ UNCHANGED <<current_tab, input_mode, panicked>>
    /\ UiFrame

\* handle_ctrl_u: the catalog lookup for the current chapter.  A new channel
\* replaces comic_rx and the form goes to Loading.
HandleCtrlU ==
    /\ AppRunning
    /\ current_tab = "Metadata"
    /\ IF comic.state # "Ready" THEN NotReady
       ELSE IF ~CurrentChapterInside THEN Panics("handle_ctrl_u")
       ELSE /\ comic_rx' = Some(Channel("lookup", CurrentChapterPath))
            /\ comic' = ComicLoading
            /\ UiKeepLists
            /\ UNCHANGED <<current_tab, input_mode, pending_selection,
                           rewritesInFlight, panicked>>
            /\ UiFrame

\* handle_refresh, the r key on the two lists: get_cbz_list fails, or the
\* chapter list of the current series is built anew from the n files found.
HandleRefreshKey ==
    /\ AppRunning
    /\ current_tab # "Metadata"
    /\ LET cur == UnwrapOr(series_state, 0)
       IN  IF cur >= Len(chapters_len) THEN Panics("handle_refresh")
           ELSE \/ NotReady
                \/ \E n \in 0 .. MaxChapters :
                      LET lens == [chapters_len EXCEPT ![cur + 1] = n]
                      IN  /\ chapters_len' = lens
                          /\ chapters_state' =
                                 RenderChapters(
                                     series_state,
                                     [chapters_state EXCEPT ![cur + 1] = Some(0)],
                                     lens)
                          /\ chapters_selected' =
                                 [chapters_selected EXCEPT ![cur + 1] = {}]
                          /\ UiKeepForm
                          /\ UNCHANGED <<current_tab, input_mode, series_state,
                                         rewritesInFlight, panicked>>
                          /\ UiFrame

\* The task behind comic_rx ends: the load thread always sends a form, the
\* lookup sends one when it found the book and returns without sending when
\* a request failed or the series or the book was not found.
LoadEnds ==
    /\ current_tab # "off"
    /\ comic_rx # None
    /\ Unwrap(comic_rx).task = "running"
    /\ \E outcome \in IF Unwrap(comic_rx).kind = "load" THEN {"sent"}
                      ELSE {"sent", "ended"} :
          comic_rx' = Some([Unwrap(comic_rx) EXCEPT !.task = outcome])
    /\ UiKeepLists
    /\ UNCHANGED <<current_tab, input_mode, comic, pending_selection,
                   rewritesInFlight, panicked>>
    /\ UiFrame

\* poll_comic_info: what it leaves as the form and the receiver.
PollComicInfo ==
    IF comic_rx # None /\ Unwrap(comic_rx).task = "sent"
    THEN [comic |-> ComicReady(Unwrap(comic_rx).path, Unwrap(comic_rx).stale),
          comic_rx |-> None]
    ELSE [comic |-> comic, comic_rx |-> comic_rx]

\* tick: poll_comic_info, then update_comic_info for the pending selection.
Tick ==
    /\ AppRunning
    /\ IF pending_selection # None
       THEN /\ comic_rx' = Some(Channel("load", Unwrap(pending_selection)))
            /\ comic' = ComicLoading
            /\ pending_selection' = None
       ELSE /\ comic' = PollComicInfo.comic
            /\ comic_rx' = PollComicInfo.comic_rx
            /\ UNCHANGED pending_selection
    /\ UiKeepLists
    /\ UNCHANGED <<current_tab, input_mode, rewritesInFlight, panicked>>
    /\ UiFrame

\* The keys of the panes and of the form, the lookup, the refresh, tick and
\* the end of the task the form waits for; the user gives no save command.
UiNext ==
    \/ SelectNext
    \/ SelectPrevious
    \/ SelectNext10
    \/ SelectPrevious10
    \/ SelectFirst
    \/ SelectLast
    \/ NextTab
    \/ PreviousTab
    \/ FormSide
    \/ FormEnter
    \/ FormEsc
    \/ HandleCtrlU
    \/ HandleRefreshKey
    \/ LoadEnds
    \/ Tick

SpecUi == UiInit /\ [][UiNext]_vars

(***************************************************************************)
(* SpecSave: the App of a library of one series, with the marks and the    *)
(* save commands Ctrl+S, Ctrl+D, Ctrl+F and Ctrl+G and the rewrites they   *)
(* spawn; the user does not ask for a catalog lookup.                      *)
(***************************************************************************)
SaveInit == UiInit /\ chapters_len = <<MaxChapters>>

SaveNext ==
    \/ SelectNext
    \/ SelectPrevious
    \/ SelectNext10
    \/ SelectPrevious10
    \/ SelectFirst
    \/ SelectLast
    \/ NextTab
    \/ PreviousTab
    \/ FormEnter
    \/ FormEsc
    \/ ToggleSelect
    \/ HandleCtrlD
    \/ HandleCtrlF
    \/ HandleCtrlG
    \/ HandleCtrlS
    \/ HandleRefreshKey
    \/ RewriteEnds
    \/ LoadEnds
    \/ Tick

SpecSave == SaveInit /\ [][SaveNext]_vars

\* tick runs once every TICK_RATE and the task of a channel runs to its end.
SpecUiLive == UiInit /\ [][UiNext]_vars /\ WF_vars(Tick) /\ WF_vars(LoadEnds)

(***************************************************************************)
(* ============ The claims about the App ================================= *)
(***************************************************************************)
\* C33: for every sequence of save commands (Ctrl+S, Ctrl+D, Ctrl+F,
\* Ctrl+G, in any order and at any speed), at no moment are two rewrites of
\* the same archive path in flight.
C33_OneRewritePerPath == \A path \in ChapterFiles : rewritesInFlight[path] <= 1

\* C34: pane navigation follows the help text: in the order SeriesList,
\* ChaptersList, Metadata, the key h (previous_tab) never moves the focus to
\* a pane further to the right and the key l (next_tab) never to a pane
\* further to the left.
C34_PaneNavigation ==
    [][/\ PreviousTab => TabRank(current_tab') <= TabRank(current_tab)
       /\ NextTab => TabRank(current_tab') >= TabRank(current_tab)]_vars

\* C36: no stale load is shown: after the user has changed the selection,
\* the metadata form is never Ready with data that a background task read
\* for a chapter other than the one now selected (a series without chapter
\* has no selected chapter).
C36_NoStaleLoad ==
    (comic.state = "Ready" /\ comic.stale) => CurrentPath = Some(comic.of)

\* The form waits for the answer of a catalog lookup and the selection has
\* not been changed since Ctrl+U.
LookupWaiting ==
    /\ panicked = "none"
    /\ comic.state = "Loading"
    /\ pending_selection = None
    /\ comic_rx # None
    /\ Unwrap(comic_rx).kind = "lookup"
    /\ ~Unwrap(comic_rx).stale

\* C37: after the catalog lookup (Ctrl+U) has put the metadata form into
\* Loading, the form eventually becomes Ready again, whether the lookup
\* succeeded or failed, without the user having to change the selection.
C37_LookupEnds == LookupWaiting ~> ~LookupWaiting

\* C38: the handlers that read the current series and the current chapter
\* (Ctrl+S, Ctrl+D, Ctrl+F, Ctrl+G, Ctrl+U, refresh) index inside the series
\* list and inside the chapter list of the selected series in every
\* reachable state of the App: none of them panics.
C38_HandlersIndexInside == panicked = "none"

\* The chapters a series batch is to take: all of them without a mark,
\* otherwise the marked ones.
ExpectedTargets(cur) ==
    IF chapters_selected[cur + 1] = {}
    THEN 0 .. chapters_len[cur + 1] - 1
    ELSE chapters_selected[cur + 1]

\* A step of Ctrl+D, Ctrl+F or Ctrl+G that has spawned a batch.
SeriesBatchSpawned ==
    /\ HandleCtrlD \/ HandleCtrlF \/ HandleCtrlG
    /\ rewritesInFlight' # rewritesInFlight

\* C39: the targets of a series batch are all chapters of the current
\* series when no chapter is marked and otherwise exactly the marked
\* chapters, each once (one rewrite is spawned for each of them and none for
\* any other file); the marks are chapters of the list; and toggling the
\* mark of a chapter twice restores the set of marks.
C39_BatchTargets ==
    /\ [][SeriesBatchSpawned =>
            \A path \in ChapterFiles :
               rewritesInFlight'[path] - rewritesInFlight[path] =
                  IF /\ path[1] = UnwrapOr(series_state, 0)
                     /\ path[2] \in ExpectedTargets(path[1])
                  THEN 1 ELSE 0]_vars
    /\ [](\A k \in DOMAIN chapters_selected :
            /\ chapters_selected[k] \subseteq 0 .. chapters_len[k] - 1
            /\ \A i \in 0 .. MaxChapters - 1 :
                  ToggleSelected(ToggleSelected(chapters_selected[k], Some(i)),
                                 Some(i)) = chapters_selected[k])

\* A batch over the one marked chapter of a series of two is in flight.
C39_Witness ==
    /\ current_tab = "Metadata"
    /\ comic.state = "Ready"
    /\ chapters_len = <<2>>
    /\ chapters_selected = <<{1}>>
    /\ CurrentPath = Some(<<0, 0>>)
    /\ rewritesInFlight[<<0, 1>>] = 1
    /\ rewritesInFlight[<<0, 0>>] = 0

====
